---- MODULE Spec2Model ----
(***************************************************************************)
(* Model of the autonomous mutation pipeline of EvolAI: the sandbox guard, *)
(* the code-safety filter, the version ledger, the auto-implementer, the   *)
(* self-updater and the hot patcher.                                       *)
(*                                                                         *)
(* A path is a sequence of segments (strings).  An absolute path is the    *)
(* sequence of its segments below "/".  A path handed to the sandbox is a  *)
(* record [abs, segs]: abs says whether the string starts with "/".        *)
(***************************************************************************)
EXTENDS Integers, Sequences, FiniteSets, TLC

(* ----------------------------- bounds --------------------------------- *)
MaxUps == 5
MaxVersions == 2
MaxImpl == 2
MaxInv == 2
MaxPatches == 2
MaxTime == 1
MaxViolations == 2
MaxRemote == 1
MaxCommits == 2
MaxTokens == 2

(* --------------------------- path algebra ------------------------------ *)

\* process.cwd(): the directory the daemon is started in; it is never changed.
Cwd == <<"app">>

\* path.normalize on a segment list: "." is dropped, ".." removes the segment
\* before it; at the top of an absolute path ".." is dropped, at the top of a
\* relative path it is kept.
RECURSIVE NormInto(_, _, _)
NormInto(stack, rest, abs) ==
  IF rest = <<>> THEN stack
  ELSE LET s == Head(rest) IN
       IF s = "." THEN NormInto(stack, Tail(rest), abs)
       ELSE IF s = ".."
            THEN IF stack # <<>> /\ stack[Len(stack)] # ".."
                 THEN NormInto(SubSeq(stack, 1, Len(stack) - 1), Tail(rest), abs)
                 ELSE IF abs THEN NormInto(stack, Tail(rest), abs)
                      ELSE NormInto(Append(stack, ".."), Tail(rest), abs)
            ELSE NormInto(Append(stack, s), Tail(rest), abs)

normalize(segs, abs) == NormInto(<<>>, segs, abs)

\* path.resolve(p): an absolute path is normalized, a relative one is taken
\* from the current working directory.  The result is absolute.
resolve(p) == IF p.abs THEN normalize(p.segs, TRUE)
              ELSE normalize(Cwd \o p.segs, TRUE)

\* path.join(a, b) of an absolute path and relative segments.
join(base, segs) == normalize(base \o segs, TRUE)

dirname(path) == IF path = <<>> THEN <<>> ELSE SubSeq(path, 1, Len(path) - 1)

RECURSIVE CommonLen(_, _)
CommonLen(a, b) ==
  IF a = <<>> \/ b = <<>> \/ Head(a) # Head(b) THEN 0
  ELSE 1 + CommonLen(Tail(a), Tail(b))

\* path.relative(from, to) of two absolute normalized paths: one ".." per
\* segment of `from` below the common prefix, then the rest of `to`.
relative(from, to) ==
  LET k == CommonLen(from, to) IN
  [i \in 1..(Len(from) - k) |-> ".."] \o SubSeq(to, k + 1, Len(to))

\* n times "..", then the segments of rest: the segments of "../../rest".
Ups(n, rest) == [i \in 1..n |-> ".."] \o rest

\* A path string handed to the sandbox.  bad marks a value that is no string,
\* on which path.resolve throws.
P(abs, segs) == [abs |-> abs, segs |-> segs, bad |-> FALSE]
NotAString == [abs |-> FALSE, segs |-> <<>>, bad |-> TRUE]

(* ---------------------------- Sandbox Guard ---------------------------- *)

SANDBOX_ROOT == resolve(P(TRUE, Cwd))

BLOCKED_PATHS ==
  <<".env", ".env.local", ".env.production", "credentials", "secrets",
    ".git/config", "id_rsa", "id_ed25519", ".ssh", ".aws", ".npmrc", ".pypirc">>

BLOCKED_EXTENSIONS == <<".pem", ".key", ".p12", ".pfx", ".keystore">>

\* String.toLowerCase on the segments the model uses.
toLowerCase(seg) ==
  CASE seg = ".ENV" -> ".env"
    [] seg = "Secrets.ts" -> "secrets.ts"
    [] seg = "ID.PEM" -> "id.pem"
    [] OTHER -> seg

\* The blocklist entries that occur as a substring of a (lower-case) segment
\* of the model's alphabet.
SubstringsOf(seg) ==
  CASE seg = ".env" -> {".env"}
    [] seg = ".env.local" -> {".env", ".env.local"}
    [] seg = "secrets.ts" -> {"secrets"}
    [] seg = "id_rsa" -> {"id_rsa"}
    [] seg = ".ssh" -> {".ssh"}
    [] OTHER -> {}

\* lowerPath.includes(blocked) for a path given by its segments.  The one
\* entry that spans a separator, ".git/config", needs two adjacent segments.
includes(lowerPath, blocked) ==
  IF blocked = ".git/config"
  THEN \E i \in 1..(Len(lowerPath) - 1) :
          lowerPath[i] = ".git" /\ lowerPath[i + 1] = "config"
  ELSE \E i \in 1..Len(lowerPath) : blocked \in SubstringsOf(lowerPath[i])

\* The extension a (lower-case) segment of the model's alphabet ends with.
ExtensionOf(seg) ==
  CASE seg = "id.pem" -> ".pem"
    [] seg = "server.key" -> ".key"
    [] OTHER -> ""

endsWith(lowerPath, ext) ==
  lowerPath # <<>> /\ ExtensionOf(lowerPath[Len(lowerPath)]) = ext

\* rel.startsWith(".."): the relative path string begins with two dots, which
\* is so for a leading ".." segment and for a leading name such as "..cache.ts".
startsWithDotDot(rel) == rel # <<>> /\ Head(rel) \in {"..", "..cache.ts"}

\* A variant of the sandbox test without the test for a path outside the
\* root: it goes straight to the blocklists.
SandboxVerdict_NoOutsideTest(targetPath) ==
  IF targetPath.bad THEN "invalid_path"
  ELSE
    LET normalized == normalize(resolve(targetPath), TRUE)
        lowerPath == [i \in 1..Len(normalized) |-> toLowerCase(normalized[i])]
    IN IF \E b \in 1..Len(BLOCKED_PATHS) :
               includes(lowerPath, toLowerCase(BLOCKED_PATHS[b]))
       THEN "blocked_path"
       ELSE IF \E e \in 1..Len(BLOCKED_EXTENSIONS) :
                  endsWith(lowerPath, BLOCKED_EXTENSIONS[e])
            THEN "blocked_extension"
            ELSE "allowed"

\* The reason Sandbox.isPathAllowed rejects targetPath with, or "allowed".
SandboxVerdict(targetPath) ==
  IF targetPath.bad THEN "invalid_path"
  ELSE
    LET resolved == resolve(targetPath)
        normalized == normalize(resolved, TRUE)
        rel == relative(SANDBOX_ROOT, normalized)
        lowerPath == [i \in 1..Len(normalized) |-> toLowerCase(normalized[i])]
    IN IF startsWithDotDot(rel) \/ resolve(P(FALSE, rel)) = normalized
       THEN "outside_sandbox"
       ELSE IF \E b \in 1..Len(BLOCKED_PATHS) :
                  includes(lowerPath, toLowerCase(BLOCKED_PATHS[b]))
            THEN "blocked_path"
            ELSE IF \E e \in 1..Len(BLOCKED_EXTENSIONS) :
                       endsWith(lowerPath, BLOCKED_EXTENSIONS[e])
                 THEN "blocked_extension"
                 ELSE "allowed"

isPathAllowed(targetPath) == SandboxVerdict(targetPath) = "allowed"

\* A variant of logViolation that only writes to the log stream.
logViolation_NotKept(vs, path, action, t) == vs

\* Sandbox.logViolation: push {path, timestamp, action}.
logViolation(vs, path, action, t) ==
  Append(vs, [path |-> path, timestamp |-> t, action |-> action])

\* The violation list after one isPathAllowed(targetPath) call at time t.
ViolationsAfter(vs, targetPath, t) ==
  IF isPathAllowed(targetPath) THEN vs
  ELSE logViolation(vs, targetPath, SandboxVerdict(targetPath), t)

(* ---------------------------- Content Filter --------------------------- *)

\* Source text is a sequence of tokens.  Each regular expression of the
\* filter is the set of tokens of the model's alphabet it matches.
NoCode == <<"undefined">>

FsImportTokens == {"from 'fs'"}
FileApiTokens == {"readFileSync"}
AbsPathTokens == {"'/home/u/.ssh/id_rsa'"}
EnvSecretTokens == {"process.env.API_KEY", "process.env.SECRET"}
ExecTokens == {"exec('curl x')"}
NetTokens == {"fetch('https://x.ngrok.io')"}

Has(code, tokens) == \E i \in 1..Len(code) : code[i] \in tokens

\* SecurityFilter.isCodeSafe: the issues list, in the order of the checks.
CodeIssues(code) ==
  (IF Has(code, FsImportTokens) /\ Has(code, FileApiTokens) /\ Has(code, AbsPathTokens)
   THEN <<"Attempts to access files outside sandbox">> ELSE <<>>)
  \o (IF Has(code, EnvSecretTokens)
      THEN <<"Attempts to access sensitive environment variables">> ELSE <<>>)
  \o (IF Has(code, ExecTokens)
      THEN <<"Attempts to execute suspicious commands">> ELSE <<>>)
  \o (IF Has(code, NetTokens)
      THEN <<"Attempts to send data to external services">> ELSE <<>>)

isCodeSafe(code) == [safe |-> CodeIssues(code) = <<>>, issues |-> CodeIssues(code)]

\* The tokens SENSITIVE_PATTERNS match: an OpenAI-style key, a home path
\* (with the quote that ends it left in place), an environment read
\* (process.env. followed by letters and underscores, whatever the name).
SensitiveTokens ==
  {"sk-abcdefghijklmnopqrstuvwx", "process.env.API_KEY", "process.env.SECRET",
   "process.env.HOME", "process.env.APISECRET"}

\* SecurityFilter.sanitize: every match becomes the redaction marker.
sanitizeToken(tok) ==
  IF tok \in SensitiveTokens THEN <<"[REDACTED]">>
  ELSE IF tok = "'/home/u/.ssh/id_rsa'" THEN <<"'[REDACTED]'">>
  ELSE <<tok>>

RECURSIVE sanitize(_)
sanitize(text) ==
  IF text = <<>> THEN <<>> ELSE sanitizeToken(Head(text)) \o sanitize(Tail(text))

\* The structural rewrites of sanitizeCode: a secret-named declaration of a
\* long literal, and a long string literal as the sole call argument.
rewriteToken(tok) ==
  IF tok = "const apiSecret = 'aaaaaaaaaaaaaaaaaaaaaaaa'"
  THEN <<"const apiSecret = ", "process.env.APISECRET", " // [REDACTED]">>
  ELSE IF tok = "('0123456789abcdef0123456789abcdef')"
  THEN <<"(", "process.env.SECRET", " /* [REDACTED] */)">>
  ELSE <<tok>>

\* The two replace calls of sanitizeCode over the whole text.
RECURSIVE rewriteAll(_)
rewriteAll(text) ==
  IF text = <<>> THEN <<>> ELSE rewriteToken(Head(text)) \o rewriteAll(Tail(text))

\* SecurityFilter.sanitizeCode: sanitize, then the structural rewrites.
sanitizeCode(code) == rewriteAll(sanitize(code))


(* ------------------------------- state --------------------------------- *)

VARIABLES
  now,         \* Date.now(), in ticks
  violations,  \* Sandbox.violations
  store,       \* VersionManager.store (versions.json)
  changelog,   \* CHANGELOG.md: its version blocks, first block first
  history,     \* AutoImplementer.history (implementation-history.json)
  fs,          \* the files below "/": path -> content
  commits,     \* number of commits made in the working tree
  lock,        \* whether the update.lock file exists
  upd,         \* the pullAndRebuild invocations: position and result
  remote,      \* commits of origin/main that local HEAD is behind
  patchLog,    \* HotPatcher.log (applied.json)
  last         \* the most recent completed call: what it was given, did and returned

vars == <<now, violations, store, changelog, history, fs, commits, lock, upd,
          remote, patchLog, last>>

(* ------------------------------ locations ------------------------------ *)

\* CONFIG.paths.memory is resolve(process.cwd(), "data/memory.json").
DataDir == join(Cwd, <<"data">>)
PROJECT_ROOT == join(DataDir, <<"..">>)
SRC_DIR == join(PROJECT_ROOT, <<"src">>)
BACKUP_DIR == join(DataDir, <<"backups">>)
HISTORY_FILE == join(DataDir, <<"implementation-history.json">>)
VERSION_DIR == join(DataDir, <<"versions">>)
CHANGELOG_FILE == join(VERSION_DIR, <<"CHANGELOG.md">>)
VERSIONS_FILE == join(VERSION_DIR, <<"versions.json">>)
PATCHES_DIR == join(DataDir, <<"patches">>)
PATCHES_LOG == join(PATCHES_DIR, <<"applied.json">>)
UPDATE_LOCK == join(DataDir, <<"update.lock">>)

existsSync(files, path) == path \in DOMAIN files

\* writeFileSync / copyFileSync: the file system with path holding content.
writeFile(files, path, content) ==
  [q \in (DOMAIN files) \cup {path} |-> IF q = path THEN content ELSE files[q]]

(* ---------------------------- Version Ledger --------------------------- *)

\* `${major}.${minor}.${patch}`
FormatVersion(t) == ToString(t[1]) \o "." \o ToString(t[2]) \o "." \o ToString(t[3])

\* The version strings of the components the ledger can hold.
Components == 0..(MaxVersions + 2)
VersionStringOf == [t \in Components \X Components \X Components |-> FormatVersion(t)]

\* version.split(".").map(Number)
ParseVersion(str) == CHOOSE t \in DOMAIN VersionStringOf : VersionStringOf[t] = str

\* String.includes on the areas and descriptions of the model's issues.
AreaIncludes(area, word) ==
  \/ area = word
  \/ area = "bugs" /\ word = "bug"

DescIncludes(desc, word) ==
  \/ desc = "replies could be faster" /\ word = "faster"
  \/ desc = "fix the retry error" /\ word \in {"fix", "error"}

\* VersionManager.determineType
determineType(proposal) ==
  LET area == proposal.issue.area
      desc == proposal.issue.description
  IN IF AreaIncludes(area, "efficiency") \/ DescIncludes(desc, "faster")
        \/ DescIncludes(desc, "performance")
     THEN "optimization"
     ELSE IF AreaIncludes(area, "bug") \/ DescIncludes(desc, "fix")
             \/ DescIncludes(desc, "error")
          THEN "bugfix"
          ELSE IF proposal.issue.severity = "high" THEN "feature"
               ELSE "improvement"

\* A variant of getNextVersion whose feature branch keeps the patch component.
getNextVersion_KeepPatch(current, type) ==
  LET v == ParseVersion(current) IN
  IF type = "feature" THEN FormatVersion(<<v[1], v[2] + 1, v[3]>>)
  ELSE FormatVersion(<<v[1], v[2], v[3] + 1>>)

\* VersionManager.getNextVersion
getNextVersion(current, type) ==
  LET v == ParseVersion(current)
      major == v[1]
      minor == v[2]
      patch == v[3]
  IN IF type = "feature" THEN FormatVersion(<<major, minor + 1, 0>>)
     ELSE FormatVersion(<<major, minor, patch + 1>>)

\* The snapshot file of VersionManager.saveVersionCode.
SnapshotPath(version, proposal) ==
  join(join(VERSION_DIR, <<"code", "v" \o version>>), proposal.solution.filename)

MetaPath(version) == join(join(VERSION_DIR, <<"code", "v" \o version>>), <<"meta.json">>)

\* VersionManager.saveVersionCode: the snapshot holds the solution's code as
\* it was proposed, below a header; the sidecar holds the metadata.
saveVersionCode(files, version, proposal) ==
  writeFile(
    writeFile(files, SnapshotPath(version, proposal),
              [kind |-> "snapshot", version |-> version,
               code |-> proposal.solution.code]),
    MetaPath(version),
    [kind |-> "meta", version |-> version, code |-> <<>>])

\* VersionManager.addToChangelog: the new block goes before the first block.
addToChangelog(log, version) ==
  <<[version |-> version.version, status |-> version.status]>> \o log

\* VersionManager.updateChangelogStatus: the first block whose heading matches
\* the version string gets the status.
updateChangelogStatus(log, version) ==
  IF \E i \in 1..Len(log) : log[i].version = version.version
  THEN LET first == CHOOSE i \in 1..Len(log) :
                       /\ log[i].version = version.version
                       /\ \A j \in 1..(i - 1) : log[j].version # version.version
       IN [log EXCEPT ![first].status = version.status]
  ELSE log

(* ------------------------------- inputs -------------------------------- *)

\* solution.filename, as the generator returns it: a plain name, a name on
\* the blocklist, and names that climb out of the directory they are joined to.
PlainName == <<"cache.ts">>
SecretsName == <<".env">>
ClimbFromSrc == Ups(3, <<"tmp", "evil.ts">>)
ClimbFromSnapshot == Ups(5, <<"tmp", "evil.ts">>)
ClimbIntoSrc == Ups(4, <<"src", "utils", "cache.ts">>)

PlainCode == <<"plain">>
UnsafeCode == <<"from 'fs'", "readFileSync", "'/home/u/.ssh/id_rsa'">>
KeyCode == <<"sk-abcdefghijklmnopqrstuvwx">>

Proposal(t, area, description, severity, filename, code) ==
  [id |-> "improvement-" \o ToString(t),
   issue |-> [area |-> area, description |-> description, severity |-> severity],
   solution |-> [filename |-> filename, code |-> code]]

\* The proposals generateImprovement returns at time t in this model: one of
\* each version type, safe and unsafe code, an existing and a new target, a
\* blocklisted name, climbing names, and an answer without code.
Proposals(t) ==
  {Proposal(t, "efficiency", "engagement is low", "medium", PlainName, PlainCode),
   Proposal(t, "ux", "engagement is low", "high", PlainName, KeyCode),
   Proposal(t, "efficiency", "engagement is low", "medium", PlainName, UnsafeCode),
   Proposal(t, "ux", "engagement is low", "medium", ClimbFromSnapshot, PlainCode),
   Proposal(t, "learning", "fix the retry error", "medium", SecretsName, PlainCode),
   Proposal(t, "ux", "engagement is low", "medium", ClimbFromSrc, PlainCode),
   Proposal(t, "ux", "fix the retry error", "high", PlainName, NoCode)}

\* What a call that has not happened yet leaves in `last`.  A call's record
\* says what it was given (arg), what it returned (ret), the files it wrote in
\* order, the directories it created, the commits it made, whether it threw,
\* and whether the update lock existed while it ran.  n alternates from call
\* to call, so that a call's record differs from the one before it.
NoCall == [op |-> "none", arg |-> <<>>, ret |-> <<>>, wrote |-> <<>>,
           mkdirs |-> {}, committed |-> 0, threw |-> FALSE, lockHeld |-> FALSE,
           n |-> 0]

Call(op, arg, ret, wrote, mkdirs, committed, threw) ==
  [op |-> op, arg |-> arg, ret |-> ret, wrote |-> wrote, mkdirs |-> mkdirs,
   committed |-> committed, threw |-> threw, lockHeld |-> lock,
   n |-> 1 - last.n]

\* A JSON value is a string [t |-> "s", s |-> ...] or an object
\* [t |-> "o", o |-> a function from keys to JSON values].
JStr(x) == [t |-> "s", s |-> x]
JObj(f) == [t |-> "o", o |-> f]
EmptyObj == JObj(<<>>)

File(kind, version, code) == [kind |-> kind, version |-> version, code |-> code]

NoPath == <<>>
NoFile == File("absent", "", <<>>)
NotStarted == [pc |-> "idle", updated |-> FALSE, error |-> "", changes |-> {},
               createdLock |-> FALSE, sawLock |-> FALSE, ran |-> {}, behind |-> 0,
               restarted |-> FALSE]

OriginalTarget == join(SRC_DIR, <<"utils", "cache.ts">>)

Init ==
  /\ now = 0
  /\ violations = <<>>
  /\ store = [currentVersion |-> "1.0.0", versions |-> <<>>, totalChanges |-> 0]
  /\ changelog = <<>>
  /\ history = [implementations |-> <<>>, totalImplemented |-> 0, totalFailed |-> 0]
  /\ fs = (OriginalTarget :> File("original", "", <<"plain">>))
          @@ (join(DataDir, <<"settings.json">>)
                :> File("json", "", JObj("mode" :> JStr("slow"))))
          @@ (CHANGELOG_FILE :> File("changelog", "", <<>>))
          @@ (join(PROJECT_ROOT, <<"package.json">>) :> File("manifest", "", <<>>))
  /\ commits = 0
  /\ lock = FALSE
  /\ upd = [i \in 1..MaxInv |-> NotStarted]
  /\ remote = 0
  /\ patchLog = [applied |-> <<>>, pending |-> <<>>, totalApplied |-> 0]
  /\ last = NoCall

\* Time passes between two calls.
Tick ==
  /\ now < MaxTime
  /\ now' = now + 1
  /\ UNCHANGED <<violations, store, changelog, history, fs, commits, lock, upd,
                 remote, patchLog, last>>

(* ----------------------- Version Ledger operations --------------------- *)

\* The Version record createVersion builds for proposal at time t.
NewVersion(st, proposal, t) ==
  LET type == determineType(proposal)
      version == getNextVersion(st.currentVersion, type)
  IN [id |-> "v" \o version \o "-" \o ToString(t),
      version |-> version,
      proposalId |-> proposal.id,
      type |-> type,
      file |-> proposal.solution.filename,
      status |-> "proposed",
      codeFile |-> SnapshotPath(version, proposal)]

\* VersionManager.createVersion.  Counting the lines of a solution without
\* code throws before anything is written.
CreateVersion(proposal) ==
  /\ Len(store.versions) < MaxVersions
  /\ IF proposal.solution.code = NoCode
     THEN /\ last' = Call("createVersion", proposal, <<>>, <<>>, {}, 0, TRUE)
          /\ UNCHANGED <<store, changelog, fs>>
     ELSE LET v == NewVersion(store, proposal, now) IN
          /\ fs' = writeFile(
                     writeFile(saveVersionCode(fs, v.version, proposal),
                               VERSIONS_FILE, File("ledger", "", <<>>)),
                     CHANGELOG_FILE, File("changelog", "", <<>>))
          /\ store' = [store EXCEPT !.versions = Append(@, v),
                                    !.totalChanges = @ + 1]
          /\ changelog' = addToChangelog(changelog, v)
          /\ last' = Call("createVersion", proposal, v,
                          <<v.codeFile, MetaPath(v.version), VERSIONS_FILE,
                            CHANGELOG_FILE>>,
                          {dirname(v.codeFile)} \ {dirname(q) : q \in DOMAIN fs},
                          0, FALSE)
  /\ UNCHANGED <<now, violations, history, commits, lock, upd, remote,
                 patchLog>>

Statuses == {"proposed", "approved", "implemented", "reverted"}

\* VersionManager.updateStatus: the first record with the id gets the status.
UpdateStatus(versionId, status) ==
  /\ IF \E i \in 1..Len(store.versions) : store.versions[i].id = versionId
     THEN LET first == CHOOSE i \in 1..Len(store.versions) :
                          /\ store.versions[i].id = versionId
                          /\ \A j \in 1..(i - 1) : store.versions[j].id # versionId
              version == [store.versions[first] EXCEPT !.status = status]
          IN /\ store' = [store EXCEPT !.versions[first] = version]
             /\ changelog' = updateChangelogStatus(changelog, version)
             /\ fs' = writeFile(writeFile(fs, VERSIONS_FILE, File("ledger", "", <<>>)),
                                CHANGELOG_FILE, File("changelog", "", <<>>))
             /\ last' = Call("updateStatus", <<versionId, status>>, TRUE,
                             <<VERSIONS_FILE, CHANGELOG_FILE>>, {}, 0, FALSE)
     ELSE /\ last' = Call("updateStatus", <<versionId, status>>, FALSE,
                          <<>>, {}, 0, FALSE)
          /\ UNCHANGED <<store, changelog, fs>>
  /\ UNCHANGED <<now, violations, history, commits, lock, upd, remote,
                 patchLog>>

VersionIds == {store.versions[i].id : i \in 1..Len(store.versions)}

\* The proposals the ledger is given: one of each version type, the file
\* names that matter to the snapshot, and the answer without code.
LedgerProposals(t) ==
  {p \in Proposals(t) : /\ p.solution.code # UnsafeCode
                        /\ p.solution.filename # ClimbFromSrc}

NextLedger ==
  \/ Tick
  \/ \E p \in LedgerProposals(now) : CreateVersion(p)
  \/ \E id \in VersionIds \cup {"v0.0.0-0"}, st \in {"implemented", "reverted"} :
        UpdateStatus(id, st)

SpecLedger == Init /\ [][NextLedger]_vars

\* The current version load() reads from versions.json when the ledger is
\* constructed: the default of a fresh ledger, and versions of a ledger file
\* that was there before.
LoadedVersions == {"1.0.0", "1.2.3", "2.0.1"}

\* The state after construction with a ledger file on disk.
InitBump ==
  /\ now = 0
  /\ violations = <<>>
  /\ store \in {[currentVersion |-> v, versions |-> <<>>, totalChanges |-> 0] :
                  v \in LoadedVersions}
  /\ changelog = <<>>
  /\ history = [implementations |-> <<>>, totalImplemented |-> 0, totalFailed |-> 0]
  /\ fs = (OriginalTarget :> File("original", "", <<"plain">>))
          @@ (VERSIONS_FILE :> File("ledger", "", <<>>))
          @@ (CHANGELOG_FILE :> File("changelog", "", <<>>))
  /\ commits = 0
  /\ lock = FALSE
  /\ upd = [i \in 1..MaxInv |-> NotStarted]
  /\ remote = 0
  /\ patchLog = [applied |-> <<>>, pending |-> <<>>, totalApplied |-> 0]
  /\ last = NoCall

\* createVersion on a loaded ledger, as time passes.
NextBump ==
  \/ Tick
  \/ \E p \in LedgerProposals(now) : CreateVersion(p)

SpecBump == InitBump /\ [][NextBump]_vars

(* --------------------------- Auto-Implementer -------------------------- *)

\* AutoImplementer.determineTargetPath
determineTargetPath(proposal) ==
  LET area == proposal.issue.area
      dir == CASE area = "decision_making" -> "agent"
               [] area = "learning" -> "evolution"
               [] area = "efficiency" -> "utils"
               [] area = "memory" -> "memory"
               [] area = "engagement" -> "agent"
               [] area = "optimization" -> "utils"
               [] OTHER -> "improvements"
  IN normalize(<<dir>> \o proposal.solution.filename, FALSE)

\* The directories of the checkout that exist without any file of the model.
CheckoutDirs ==
  {PROJECT_ROOT, SRC_DIR, DataDir, BACKUP_DIR, VERSION_DIR, PATCHES_DIR,
   join(SRC_DIR, <<"utils">>), join(SRC_DIR, <<"agent">>),
   join(SRC_DIR, <<"evolution">>), join(SRC_DIR, <<"memory">>), <<>>, <<"tmp">>}

dirExists(files, dir) == dir \in CheckoutDirs \cup {dirname(q) : q \in DOMAIN files}

\* AutoImplementer.createBackup: the backup's path.
BackupPath(filePath, version, t) ==
  join(BACKUP_DIR,
       <<version \o "-" \o ToString(t) \o "-"
           \o (IF filePath = <<>> THEN "backup" ELSE filePath[Len(filePath)])>>)

\* AutoImplementer.formatCode: the provenance header, then the code.
formatCode(proposal, version, sanitizedCode) ==
  File("implemented", version,
       IF sanitizedCode = <<>> THEN proposal.solution.code ELSE sanitizedCode)

\* AutoImplementer.gitCommit: the short hash of the new commit, or the
\* sentinel when staging or committing fails.
gitCommit(nCommits, gitOk) ==
  IF gitOk THEN "h" \o ToString(nCommits + 1) ELSE "no-commit"

\* The catch block and the tail of implement(): the failed Implementation is
\* counted, pushed onto the history, and the history file is saved.
returnEarly_ThroughCatch(impl, files, hist, checked, target) ==
  [impl |-> impl,
   files |-> writeFile(files, HISTORY_FILE, File("history", "", <<>>)),
   history |-> [implementations |-> Append(hist.implementations, impl),
                totalImplemented |-> hist.totalImplemented,
                totalFailed |-> hist.totalFailed + 1],
   wrote |-> <<HISTORY_FILE>>, mkdirs |-> {}, committed |-> 0,
   checked |-> checked, target |-> target]

\* A variant of the early return taken after the backup step: the target's
\* content has been copied to the backup directory before the refusal.
returnEarly_AfterBackup(impl, files, hist, checked, target) ==
  LET backup == BackupPath(target, impl.version, 0)
      existed == existsSync(files, target)
  IN [impl |-> impl,
      files |-> IF existed THEN writeFile(files, backup, files[target]) ELSE files,
      history |-> hist,
      wrote |-> IF existed THEN <<backup>> ELSE <<>>,
      mkdirs |-> {}, committed |-> 0, checked |-> checked, target |-> target]

\* The `return implementation` inside the try block of implement(), taken
\* when validation or the sandbox refuses: the tail that records the
\* Implementation is skipped.
returnEarly(impl, files, hist, checked, target) ==
  [impl |-> impl, files |-> files, history |-> hist, wrote |-> <<>>,
   mkdirs |-> {}, committed |-> 0, checked |-> checked, target |-> target]

\* AutoImplementer.implement(proposal, version) at time t on the files, the
\* history and the commit count given: the Implementation it returns and
\* everything it did.  gitOk says whether the staging and commit succeed.
\* The proposal's code is a string: createVersion, which every caller runs
\* first on the same proposal, throws on anything else.
implement(proposal, version, files, hist, nCommits, t, gitOk) ==
  LET impl0 == [id |-> "impl-" \o ToString(t), proposalId |-> proposal.id,
                version |-> version, file |-> proposal.solution.filename,
                action |-> "created", backupPath |-> NoPath, gitCommit |-> "",
                success |-> FALSE, error |-> ""]
      fullPath == join(SRC_DIR, determineTargetPath(proposal))
      targetDir == dirname(fullPath)
      existed == existsSync(files, fullPath)
  IN IF ~isCodeSafe(proposal.solution.code).safe
     THEN returnEarly([impl0 EXCEPT !.error = "Security validation failed"],
                      files, hist, <<>>, fullPath)
     ELSE IF ~isPathAllowed(P(TRUE, fullPath))
     THEN returnEarly([impl0 EXCEPT !.error = "Path outside sandbox"],
                      files, hist, <<P(TRUE, fullPath)>>, fullPath)
     ELSE LET backup == BackupPath(fullPath, version, t)
              files1 == IF existed THEN writeFile(files, backup, files[fullPath])
                        ELSE files
              files2 == writeFile(files1, fullPath,
                                  formatCode(proposal, version,
                                             sanitizeCode(proposal.solution.code)))
              impl == [impl0 EXCEPT
                         !.action = IF existed THEN "modified" ELSE "created",
                         !.backupPath = IF existed THEN backup ELSE NoPath,
                         !.gitCommit = gitCommit(nCommits, gitOk),
                         !.success = TRUE]
          IN [impl |-> impl,
              files |-> writeFile(files2, HISTORY_FILE, File("history", "", <<>>)),
              history |-> [implementations |-> Append(hist.implementations, impl),
                           totalImplemented |-> hist.totalImplemented + 1,
                           totalFailed |-> hist.totalFailed],
              wrote |-> (IF existed THEN <<backup>> ELSE <<>>)
                          \o <<fullPath, HISTORY_FILE>>,
              mkdirs |-> IF dirExists(files1, targetDir) THEN {} ELSE {targetDir},
              committed |-> IF gitOk THEN 1 ELSE 0,
              checked |-> <<P(TRUE, fullPath)>>, target |-> fullPath]

\* The sandbox's violation list after the checks a call made.
RECURSIVE ViolationsAfterAll(_, _, _)
ViolationsAfterAll(vs, checked, t) ==
  IF checked = <<>> THEN vs
  ELSE ViolationsAfterAll(ViolationsAfter(vs, Head(checked), t), Tail(checked), t)

Implement(proposal, version, gitOk) ==
  /\ Len(history.implementations) < MaxImpl
  /\ Len(violations) < MaxViolations
  /\ LET r == implement(proposal, version, fs, history, commits, now, gitOk) IN
     /\ fs' = r.files
     /\ history' = r.history
     /\ commits' = commits + r.committed
     /\ violations' = ViolationsAfterAll(violations, r.checked, now)
     /\ last' = Call("implement",
                     [proposal |-> proposal, version |-> version, gitOk |-> gitOk,
                      target |-> r.target,
                      before |-> IF existsSync(fs, r.target) THEN fs[r.target]
                                 ELSE NoFile],
                     r.impl, r.wrote, r.mkdirs, r.committed, FALSE)
  /\ UNCHANGED <<now, store, changelog, lock, upd, remote, patchLog>>

\* AutoImplementer.rollback(implementationId) on the files and history given.
\* The copy fails when the backup or the target's directory is missing.
rollback(implementationId, files, hist, gitOk) ==
  LET impls == hist.implementations
      found == \E i \in 1..Len(impls) : impls[i].id = implementationId
      impl == impls[CHOOSE i \in 1..Len(impls) :
                      /\ impls[i].id = implementationId
                      /\ \A j \in 1..(i - 1) : impls[j].id # implementationId]
      targetPath ==
        join(SRC_DIR,
             determineTargetPath([issue |-> [area |-> "", description |-> "",
                                             severity |-> "low"],
                                  solution |-> [filename |-> impl.file]]))
      nothing == [ret |-> FALSE, files |-> files, wrote |-> <<>>, committed |-> 0]
  IN IF ~found THEN nothing
     ELSE IF impl.backupPath = NoPath THEN nothing
     ELSE IF ~existsSync(files, impl.backupPath) \/ ~dirExists(files, dirname(targetPath))
     THEN nothing
     ELSE [ret |-> gitOk,
           files |-> writeFile(files, targetPath, files[impl.backupPath]),
           wrote |-> <<targetPath>>,
           committed |-> IF gitOk THEN 1 ELSE 0]

\* A variant of rollback that takes the rolled-back record off the history.
historyAfterRollback_Removed(hist, implementationId) ==
  [hist EXCEPT !.implementations =
     SelectSeq(@, LAMBDA impl : impl.id # implementationId)]

\* The history after rollback: no statement of rollback assigns to it.
historyAfterRollback(hist, implementationId) == hist

Rollback(implementationId, gitOk) ==
  /\ commits < MaxCommits
  /\ LET r == rollback(implementationId, fs, history, gitOk) IN
     /\ fs' = r.files
     /\ commits' = commits + r.committed
     /\ last' = Call("rollback", implementationId, r.ret, r.wrote, {}, r.committed, FALSE)
  /\ history' = historyAfterRollback(history, implementationId)
  /\ UNCHANGED <<now, violations, store, changelog, lock, upd, remote,
                 patchLog>>

ImplementationIds ==
  {history.implementations[i].id : i \in 1..Len(history.implementations)}

VersionStrings == {store.versions[i].version : i \in 1..Len(store.versions)}

(* ------------------------------ Hot Patcher ---------------------------- *)

\* HotPatcher.resolveTargetPath
resolveTargetPath(target) ==
  IF Len(target) > 1 /\ Head(target) = "data" THEN join(DataDir, Tail(target))
  ELSE IF Len(target) > 1 /\ Head(target) = "config"
       THEN join(join(PROJECT_ROOT, <<"src">>), target)
       ELSE join(PROJECT_ROOT, target)

\* SecurityFilter.sanitizeForSharing: sanitize, then the path, address and
\* port rewrites.
shareToken(tok) ==
  IF tok = "/Volumes/disk/x" THEN <<"[PATH_REDACTED]">>
  ELSE IF tok = "10.0.0.1" THEN <<"[IP_REDACTED]">>
  ELSE IF tok = "localhost:3000" THEN <<"localhost:[PORT]">>
  ELSE <<tok>>

\* The replace calls of sanitizeForSharing over the whole text.
RECURSIVE shareAll(_)
shareAll(text) ==
  IF text = <<>> THEN <<>> ELSE shareToken(Head(text)) \o shareAll(Tail(text))

sanitizeForSharing(text) == shareAll(sanitize(text))

\* HotPatcher.deepMerge: objects are merged key by key, anything else of the
\* source replaces what the target holds.
RECURSIVE deepMerge(_, _)
deepMerge(target, source) ==
  LET tf == IF target.t = "o" THEN target.o ELSE <<>> IN
  JObj([k \in (DOMAIN tf) \cup (DOMAIN source.o) |->
          IF k \in DOMAIN source.o
          THEN IF source.o[k].t = "o"
               THEN deepMerge(IF k \in DOMAIN tf THEN tf[k] ELSE EmptyObj, source.o[k])
               ELSE source.o[k]
          ELSE tf[k]])

\* The first occurrence of oldValue in content becomes newValue.
RECURSIVE replaceFirst(_, _, _)
replaceFirst(content, oldValue, newValue) ==
  IF content = <<>> THEN <<>>
  ELSE IF Head(content) = oldValue THEN <<newValue>> \o Tail(content)
       ELSE <<Head(content)>> \o replaceFirst(Tail(content), oldValue, newValue)

\* A variant of the old-value test of applyReplace that never fails.
oldValueNotFound_Ignored(content, oldValue) == FALSE

\* The old-value test of applyReplace: an old value is given and the file's
\* content does not include it.
oldValueNotFound(content, oldValue) == oldValue # "" /\ ~Has(content, {oldValue})

\* applyReplace, applyAppend and applyJsonModify: the file written, or
\* failure when the method throws.
applyAction(files, path, patch) ==
  LET exists == existsSync(files, path)
      failed == [ok |-> FALSE, content |-> NoFile]
  IN CASE patch.action = "replace" ->
            IF ~exists \/ files[path].kind = "json" THEN failed
            ELSE IF oldValueNotFound(files[path].code, patch.oldValue)
                 THEN failed
                 ELSE [ok |-> TRUE,
                       content |->
                         File("text", "",
                              sanitizeForSharing(
                                IF patch.oldValue # ""
                                THEN replaceFirst(files[path].code, patch.oldValue,
                                                  patch.newValue)
                                ELSE <<patch.newValue>>))]
       [] patch.action = "append" ->
            IF exists /\ files[path].kind = "json" THEN failed
            ELSE [ok |-> TRUE,
                  content |->
                    File("text", "",
                         sanitizeForSharing(
                           (IF exists THEN files[path].code ELSE <<>>)
                             \o <<"\n", patch.newValue>>))]
       [] OTHER ->
            IF ~exists \/ files[path].kind # "json" \/ patch.json.t # "o" THEN failed
            ELSE [ok |-> TRUE,
                  content |-> File("json", "", deepMerge(files[path].code, patch.json))]

\* The failure exits of apply, with the patch removed from the pending list.
markFailed_Dropped(plog, patchIndex) ==
  [plog EXCEPT !.pending = SubSeq(@, 1, patchIndex - 1)
                             \o SubSeq(@, patchIndex + 1, Len(@))]

\* The failure exits of apply (patch.success = false; return false): the
\* patch is marked where it is, in the pending list.
markFailed(plog, patchIndex) == [plog EXCEPT !.pending[patchIndex].success = "false"]

\* The security check of apply on the resolved target: skipped.
patchTargetAllowed_Unchecked(targetPath) == TRUE

\* The security check of apply on the resolved target.
patchTargetAllowed(targetPath) == isPathAllowed(P(TRUE, targetPath))

\* HotPatcher.apply(patchId) at time t: what it returns and what it leaves.
apply(patchId, plog, files, vs, t) ==
  LET pending == plog.pending
      found == \E i \in 1..Len(pending) : pending[i].id = patchId
      patchIndex == CHOOSE i \in 1..Len(pending) :
                      /\ pending[i].id = patchId
                      /\ \A j \in 1..(i - 1) : pending[j].id # patchId
      patch == pending[patchIndex]
      targetPath == resolveTargetPath(patch.target)
      failedLog == markFailed(plog, patchIndex)
      done == applyAction(files, targetPath, patch)
  IN IF ~found
     THEN [ret |-> FALSE, log |-> plog, files |-> files, violations |-> vs,
           wrote |-> <<>>]
     ELSE IF ~patchTargetAllowed(targetPath)
     THEN [ret |-> FALSE, log |-> failedLog, files |-> files,
           violations |-> ViolationsAfter(vs, P(TRUE, targetPath), t), wrote |-> <<>>]
     ELSE IF ~done.ok
     THEN [ret |-> FALSE, log |-> failedLog, files |-> files, violations |-> vs,
           wrote |-> <<>>]
     ELSE [ret |-> TRUE,
           log |-> [pending |-> SubSeq(pending, 1, patchIndex - 1)
                                  \o SubSeq(pending, patchIndex + 1, Len(pending)),
                    applied |-> Append(plog.applied,
                                       [patch EXCEPT !.appliedAt = ToString(t),
                                                     !.success = "true"]),
                    totalApplied |-> plog.totalApplied + 1],
           files |-> writeFile(writeFile(files, targetPath, done.content),
                               PATCHES_LOG, File("patches", "", <<>>)),
           violations |-> vs,
           wrote |-> <<targetPath, PATCHES_LOG>>]

\* The patch specifications createPatch is given in this model.
PatchSpecs ==
  {[type |-> "data", target |-> <<"data", "settings.json">>, action |-> "modify_json",
    oldValue |-> "", newValue |-> "", json |-> JObj("mode" :> JStr("fast"))],
   [type |-> "config", target |-> <<"README.md">>, action |-> "append",
    oldValue |-> "", newValue |-> "note", json |-> JStr("")],
   [type |-> "behavior", target |-> Ups(2, <<"tmp", "x.txt">>), action |-> "replace",
    oldValue |-> "", newValue |-> "text", json |-> JStr("")],
   [type |-> "config", target |-> <<"README.md">>, action |-> "replace",
    oldValue |-> "", newValue |-> "text", json |-> JStr("")],
   [type |-> "behavior", target |-> <<"src", "utils", "cache.ts">>,
    action |-> "replace", oldValue |-> "absent", newValue |-> "text",
    json |-> JStr("")]}

\* HotPatcher.createPatch.  The random part of the id is fresh.
CreatePatch(spec) ==
  /\ Len(patchLog.pending) + Len(patchLog.applied) < MaxPatches
  /\ LET newPatch ==
           [id |-> "patch-" \o ToString(now) \o "-"
                     \o ToString(Len(patchLog.pending) + Len(patchLog.applied)),
            type |-> spec.type, target |-> spec.target, action |-> spec.action,
            oldValue |-> spec.oldValue, newValue |-> spec.newValue,
            json |-> spec.json, appliedAt |-> "", success |-> ""]
     IN /\ patchLog' = [patchLog EXCEPT !.pending = Append(@, newPatch)]
        /\ fs' = writeFile(fs, PATCHES_LOG, File("patches", "", <<>>))
        /\ last' = Call("createPatch", spec, newPatch, <<PATCHES_LOG>>, {}, 0, FALSE)
  /\ UNCHANGED <<now, violations, store, changelog, history, commits, lock,
                 upd, remote>>

Apply(patchId) ==
  /\ Len(violations) < MaxViolations
  /\ LET r == apply(patchId, patchLog, fs, violations, now) IN
     /\ patchLog' = r.log
     /\ fs' = r.files
     /\ violations' = r.violations
     /\ last' = Call("apply", patchId, r.ret, r.wrote, {}, 0, FALSE)
  /\ UNCHANGED <<now, store, changelog, history, commits, lock, upd, remote>>

PatchIds == {patchLog.pending[i].id : i \in 1..Len(patchLog.pending)}

\* HotPatcher.applyAll over the snapshot of the pending list taken at its
\* start: the counts, and what the applies leave.
RECURSIVE applyEach(_, _, _, _, _, _)
applyEach(ids, plog, files, vs, t, acc) ==
  IF ids = <<>>
  THEN [ret |-> acc.ret, log |-> plog, files |-> files, violations |-> vs,
        wrote |-> acc.wrote]
  ELSE LET r == apply(Head(ids), plog, files, vs, t) IN
       applyEach(Tail(ids), r.log, r.files, r.violations, t,
                 [ret |-> [applied |-> acc.ret.applied + (IF r.ret THEN 1 ELSE 0),
                           failed |-> acc.ret.failed + (IF r.ret THEN 0 ELSE 1)],
                  wrote |-> acc.wrote \o r.wrote])

applyAll(plog, files, vs, t) ==
  applyEach([i \in 1..Len(plog.pending) |-> plog.pending[i].id], plog, files, vs, t,
            [ret |-> [applied |-> 0, failed |-> 0], wrote |-> <<>>])

\* The call record of applyAll keeps, as its argument, the operation that
\* returned just before it and the ids that were pending when it started.
ApplyAll ==
  /\ Len(violations) + Len(patchLog.pending) <= MaxViolations + MaxPatches
  /\ LET r == applyAll(patchLog, fs, violations, now) IN
     /\ patchLog' = r.log
     /\ fs' = r.files
     /\ violations' = r.violations
     /\ last' = Call("applyAll",
                     [after |-> last.op,
                      pending |-> [i \in 1..Len(patchLog.pending) |->
                                     patchLog.pending[i].id]],
                     r.ret, r.wrote, {}, 0, FALSE)
  /\ UNCHANGED <<now, store, changelog, history, commits, lock, upd, remote>>

\* splice(index, 1) on a list: the element at the index leaves, if there is
\* one.
splice(list, index) ==
  IF index \in 1..Len(list)
  THEN SubSeq(list, 1, index - 1) \o SubSeq(list, index + 1, Len(list))
  ELSE list

\* An assignment to a field of the patch object apply holds: the object is
\* shared by every list entry that refers to it.
markSuccess(list, patchId, value) ==
  [i \in 1..Len(list) |->
     IF list[i].id = patchId THEN [list[i] EXCEPT !.success = value] ELSE list[i]]

\* An applyAll run that is not in flight.
NoRun == NotStarted

\* HotPatcher.apply(patchId) from its call to its await of the action method
\* (awaits = TRUE: the method has run, and has written the target unless it
\* threw) or, when the patch is not found or its target is refused, to its
\* return.
applyUntilAwait(patchId, plog, files, vs, t) ==
  LET pending == plog.pending
      found == \E i \in 1..Len(pending) : pending[i].id = patchId
      patchIndex == CHOOSE i \in 1..Len(pending) :
                      /\ pending[i].id = patchId
                      /\ \A j \in 1..(i - 1) : pending[j].id # patchId
      patch == pending[patchIndex]
      targetPath == resolveTargetPath(patch.target)
      done == applyAction(files, targetPath, patch)
  IN IF ~found
     THEN [awaits |-> FALSE, patchIndex |-> 0, ok |-> FALSE, log |-> plog,
           files |-> files, violations |-> vs, wrote |-> ""]
     ELSE IF ~patchTargetAllowed(targetPath)
     THEN [awaits |-> FALSE, patchIndex |-> patchIndex, ok |-> FALSE,
           log |-> markFailed(plog, patchIndex), files |-> files,
           violations |-> ViolationsAfter(vs, P(TRUE, targetPath), t),
           wrote |-> ""]
     ELSE IF ~done.ok
     THEN [awaits |-> TRUE, patchIndex |-> patchIndex, ok |-> FALSE, log |-> plog,
           files |-> files, violations |-> vs, wrote |-> ""]
     ELSE [awaits |-> TRUE, patchIndex |-> patchIndex, ok |-> TRUE, log |-> plog,
           files |-> writeFile(files, targetPath, done.content),
           violations |-> vs, wrote |-> patchId]

\* HotPatcher.apply after its await: the catch block when the method threw,
\* and otherwise the marks, the splice at the index found before the await,
\* the push, the count and saveLog.
applyAfterAwait(patchId, patchIndex, ok, patch, plog, files, t) ==
  IF ~ok
  THEN [ret |-> FALSE,
        log |-> [plog EXCEPT !.pending = markSuccess(@, patchId, "false"),
                             !.applied = markSuccess(@, patchId, "false")],
        files |-> files]
  ELSE LET marked == [patch EXCEPT !.appliedAt = ToString(t), !.success = "true"]
           stamp(list) == [i \in 1..Len(list) |->
                             IF list[i].id = patchId THEN marked ELSE list[i]]
       IN [ret |-> TRUE,
           log |-> [pending |-> splice(stamp(plog.pending), patchIndex),
                    applied |-> Append(stamp(plog.applied), marked),
                    totalApplied |-> plog.totalApplied + 1],
           files |-> writeFile(files, PATCHES_LOG, File("patches", "", <<>>))]

\* The loop of applyAll from the call of apply on the next id of its copy of
\* the pending list to the next await: the one inside apply, or the one of
\* applyAll on the promise apply returned.
applyNext(run, plog, files, vs, t) ==
  LET a == applyUntilAwait(Head(run.queue), plog, files, vs, t)
      patch == IF a.patchIndex = 0 THEN <<>> ELSE plog.pending[a.patchIndex]
  IN [run |-> [run EXCEPT !.pc = IF a.awaits THEN "awaitAction" ELSE "awaitApply",
                          !.queue = Tail(@),
                          !.patchId = Head(run.queue),
                          !.patchIndex = a.patchIndex,
                          !.patch = patch,
                          !.ok = a.ok,
                          !.success = FALSE],
      log |-> a.log, files |-> a.files, violations |-> a.violations,
      wrote |-> a.wrote]

\* A step of a run of applyAll, as the call record keeps it: the slot of the
\* run, the id of the patch whose target the step wrote ("" if none), and
\* what applyAll returned if the step is its return.
RunStep(i, wrote, returned, ret) ==
  Call("applyAllStep", [slot |-> i, wrote |-> wrote, returned |-> returned], ret,
       <<>>, {}, 0, FALSE)

\* applyAll() is called: it copies the pending list and, if there is a
\* patch, calls apply on the first one.
ApplyAllStart(i) ==
  /\ upd[i] = NoRun
  /\ Len(violations) < 2 * MaxPatches
  /\ LET run == [pc |-> "start",
                 queue |-> [k \in 1..Len(patchLog.pending) |-> patchLog.pending[k].id],
                 patchId |-> "", patchIndex |-> 0, patch |-> <<>>, ok |-> FALSE,
                 success |-> FALSE, applied |-> 0, failed |-> 0]
     IN IF run.queue = <<>>
        THEN /\ last' = RunStep(i, "", TRUE, [applied |-> 0, failed |-> 0])
             /\ UNCHANGED <<upd, patchLog, fs, violations>>
        ELSE \E r \in {applyNext(run, patchLog, fs, violations, now)} :
               /\ upd' = [upd EXCEPT ![i] = r.run]
               /\ patchLog' = r.log
               /\ fs' = r.files
               /\ violations' = r.violations
               /\ last' = RunStep(i, r.wrote, FALSE, <<>>)
  /\ UNCHANGED <<now, store, changelog, history, commits, lock, remote>>

\* A run of applyAll continues after an await.
ApplyAllResume(i) ==
  /\ upd[i] # NoRun
  /\ upd[i].pc \in {"awaitAction", "awaitApply"}
  /\ Len(violations) < 2 * MaxPatches
  /\ IF upd[i].pc = "awaitAction"
     THEN \E r \in {applyAfterAwait(upd[i].patchId, upd[i].patchIndex, upd[i].ok,
                                    upd[i].patch, patchLog, fs, now)} :
            /\ upd' = [upd EXCEPT ![i] = [@ EXCEPT !.pc = "awaitApply",
                                                   !.success = r.ret]]
            /\ patchLog' = r.log
            /\ fs' = r.files
            /\ last' = RunStep(i, "", FALSE, <<>>)
            /\ UNCHANGED violations
     ELSE LET counted == [upd[i] EXCEPT
                            !.applied = @ + (IF upd[i].success THEN 1 ELSE 0),
                            !.failed = @ + (IF upd[i].success THEN 0 ELSE 1)]
          IN IF counted.queue = <<>>
             THEN /\ upd' = [upd EXCEPT ![i] = NoRun]
                  /\ last' = RunStep(i, "", TRUE,
                                     [applied |-> counted.applied,
                                      failed |-> counted.failed])
                  /\ UNCHANGED <<patchLog, fs, violations>>
             ELSE \E r \in {applyNext(counted, patchLog, fs, violations, now)} :
                    /\ upd' = [upd EXCEPT ![i] = r.run]
                    /\ patchLog' = r.log
                    /\ fs' = r.files
                    /\ violations' = r.violations
                    /\ last' = RunStep(i, r.wrote, FALSE, <<>>)
  /\ UNCHANGED <<now, store, changelog, history, commits, lock, remote>>

(* ------------------------------ Self-Updater --------------------------- *)

\* The files the most recent pulled commit can have changed.
ChangeSets == {{}, {"src/agent/brain.ts"}, {"package.json"}, {"README.md"}}

startsWithSrc(f) == f = "src/agent/brain.ts"

\* The tool steps of pullAndRebuild after the lock is written, in order, up
\* to the step that fails (fail names it, or is "none").  A failing stash is
\* swallowed; any other failure ends the sequence.
UpdateSteps(changedFiles, fail) ==
  LET needsRebuild == \E f \in changedFiles :
                         startsWithSrc(f) \/ f = "package.json" \/ f = "tsconfig.json"
      all == <<"stash", "pull", "diff">>
               \o (IF needsRebuild /\ "package.json" \in changedFiles
                   THEN <<"install">> ELSE <<>>)
               \o (IF needsRebuild THEN <<"build">> ELSE <<>>)
      stops == {i \in 1..Len(all) : all[i] = fail /\ fail # "stash"}
  IN IF stops = {} THEN [ran |-> all, failed |-> FALSE]
     ELSE [ran |-> SubSeq(all, 1, CHOOSE i \in stops : TRUE), failed |-> TRUE]

Range(seq) == {seq[i] : i \in 1..Len(seq)}

\* A variant of the lock test placed inside the try block: the finally block
\* then runs and removes the lock file it found.
alreadyInProgress_InsideTry(lockExists) ==
  [inv |-> [NotStarted EXCEPT !.pc = "done",
                              !.error = "Update already in progress",
                              !.sawLock = TRUE],
   lock |-> FALSE]

\* The lock test of pullAndRebuild, before its try block: the result is
\* returned as it is and the lock file is left alone.
alreadyInProgress(lockExists) ==
  [inv |-> [NotStarted EXCEPT !.pc = "done",
                              !.error = "Update already in progress",
                              !.sawLock = TRUE],
   lock |-> lockExists]

\* A variant of the finally block that leaves the lock file where it is.
finallyBlock_KeepLock(lockExists) == lockExists

\* The finally block of pullAndRebuild: the lock file is removed if it
\* exists.  What is returned is whether the lock file exists afterwards.
finallyBlock(lockExists) == FALSE

\* A variant of the lock test that never finds the lock.
lockTest_Skipped(lockExists) == FALSE

\* The lock test of pullAndRebuild: existsSync(UPDATE_LOCK).  No await lies
\* between it and the write of the lock file, so both are one step.
lockTest(lockExists) == lockExists

\* SelfUpdater.pullAndRebuild from its call to its first await (the
\* notification) or, on the lock or on a failing tool, to its return: the
\* invocation's position and result so far (ran: the tool steps it ran), and
\* whether the lock file exists afterwards.
pullAndRebuild(lockExists, changedFiles, fail) ==
  IF lockTest(lockExists) THEN alreadyInProgress(lockExists)
  ELSE IF fail = "lock"
  THEN \* writing the lock file fails: catch, then finally
       [inv |-> [NotStarted EXCEPT !.pc = "done", !.error = fail],
        lock |-> finallyBlock(FALSE)]
  ELSE LET steps == UpdateSteps(changedFiles, fail)
           diffed == "diff" \in Range(steps.ran) /\ fail # "diff"
       IN IF steps.failed
          THEN \* catch, then finally
               [inv |-> [NotStarted EXCEPT !.pc = "done", !.error = fail,
                                           !.changes = IF diffed THEN changedFiles
                                                       ELSE {},
                                           !.createdLock = TRUE,
                                           !.ran = Range(steps.ran)],
                lock |-> finallyBlock(TRUE)]
          ELSE [inv |-> [NotStarted EXCEPT !.pc = "notify", !.updated = TRUE,
                                           !.changes = changedFiles,
                                           !.createdLock = TRUE,
                                           !.ran = Range(steps.ran)],
                lock |-> TRUE]

\* The rest of pullAndRebuild once the notification has settled.  A message
\* that could not be sent is swallowed by the Telegram client, so finding()
\* resolves either way; then the finally block runs.
afterNotify(inv, lockExists, notifyOk) ==
  [inv |-> [inv EXCEPT !.pc = "done",
                       !.ran = IF notifyOk THEN @ \cup {"notify"} ELSE @],
   lock |-> finallyBlock(lockExists)]

\* An invocation that has returned frees its slot; what it returned is the
\* call's record.
PullStart(i, changedFiles, fail) ==
  /\ upd[i].pc = "idle"
  /\ LET r == pullAndRebuild(lock, changedFiles, fail) IN
     /\ lock' = r.lock
     /\ remote' = IF "pull" \in r.inv.ran /\ fail # "pull" THEN 0 ELSE remote
     /\ IF r.inv.pc = "done"
        THEN /\ last' = Call("pullAndRebuild", i, r.inv, <<>>, {}, 0, FALSE)
             /\ UNCHANGED upd
        ELSE /\ upd' = [upd EXCEPT ![i] = r.inv]
             /\ UNCHANGED last
  /\ UNCHANGED <<now, violations, store, changelog, history, fs, commits, patchLog>>

PullFinish(i, notifyOk) ==
  /\ upd[i].pc = "notify"
  /\ LET r == afterNotify(upd[i], lock, notifyOk) IN
     /\ last' = Call("pullAndRebuild", i, r.inv, <<>>, {}, 0, FALSE)
     /\ lock' = r.lock
  /\ upd' = [upd EXCEPT ![i] = NotStarted]
  /\ UNCHANGED <<now, violations, store, changelog, history, fs, commits, remote,
                 patchLog>>

\* A variant of the module's load that clears the lock file left behind.
moduleLoad_ClearsLock(lockExists) == FALSE

\* The load of the updater's module in a new process: it computes the paths
\* and touches no file.  What is returned is whether the lock file exists
\* afterwards.
moduleLoad(lockExists) == lockExists

\* The process is killed while invocations are inside pullAndRebuild, and
\* is started again: what was in memory is gone, the files stay.
Crash ==
  /\ \E i \in 1..MaxInv : upd[i].pc # "idle"
  /\ upd' = [i \in 1..MaxInv |-> NotStarted]
  /\ lock' = moduleLoad(lock)
  /\ last' = Call("crash", {i \in 1..MaxInv : upd[i].pc # "idle"}, lock, <<>>, {},
                  0, FALSE)
  /\ UNCHANGED <<now, violations, store, changelog, history, fs, commits, remote,
                 patchLog>>

Failures == {"none", "lock", "stash", "pull", "diff", "install", "build"}

\* Commits land on origin/main.
RemotePush ==
  /\ remote < MaxRemote
  /\ remote' = remote + 1
  /\ UNCHANGED <<now, violations, store, changelog, history, fs, commits, lock,
                 upd, patchLog, last>>

\* A variant of checkForUpdates without the early return for behind === 0.
checkForUpdates_NoZeroTest(behindRemote, fetchOk) ==
  IF fetchOk THEN [hasUpdates |-> TRUE, behind |-> behindRemote]
  ELSE [hasUpdates |-> FALSE, behind |-> 0]

\* SelfUpdater.checkForUpdates, with origin/main behindRemote commits ahead
\* of HEAD: a failing fetch or rev-list is caught and reported as no updates.
checkForUpdates(behindRemote, fetchOk) ==
  IF fetchOk /\ behindRemote # 0
  THEN [hasUpdates |-> TRUE, behind |-> behindRemote]
  ELSE [hasUpdates |-> FALSE, behind |-> 0]

\* A call of checkForUpdates on its own, as the commands of the operator
\* make it: it reads the remote and changes nothing.
CheckForUpdates(fetchOk) ==
  /\ last' = Call("checkForUpdates", [fetchOk |-> fetchOk, behind |-> remote],
                  checkForUpdates(remote, fetchOk), <<>>, {}, 0, FALSE)
  /\ UNCHANGED <<now, violations, store, changelog, history, fs, commits, lock,
                 upd, remote, patchLog>>

\* The UpdateResult an invocation of runFullUpdate returns, with the tool
\* steps it ran and what it did about the lock.
FullResult(inv) ==
  [updated |-> inv.updated, changes |-> inv.changes, restarted |-> inv.restarted,
   error |-> inv.error, ran |-> inv.ran, createdLock |-> inv.createdLock,
   sawLock |-> inv.sawLock]

FullReturn(i, inv) ==
  Call("runFullUpdate", [slot |-> i, behind |-> inv.behind], FullResult(inv),
       <<>>, {}, 0, FALSE)

\* SelfUpdater.runFullUpdate from its call to its return or, when it pulls
\* and the pull gets as far as the notification, to that await.
FullStart(i, fetchOk, changedFiles, fail) ==
  /\ upd[i].pc = "idle"
  /\ LET check == checkForUpdates(remote, fetchOk)
         r == pullAndRebuild(lock, changedFiles, fail)
         inv == [r.inv EXCEPT !.behind = check.behind]
     IN IF ~check.hasUpdates
        THEN /\ last' = FullReturn(i, [NotStarted EXCEPT !.behind = check.behind])
             /\ UNCHANGED <<lock, remote, upd>>
        ELSE /\ lock' = r.lock
             /\ remote' = IF "pull" \in inv.ran /\ fail # "pull" THEN 0 ELSE remote
             /\ IF inv.pc = "done"
                THEN /\ last' = FullReturn(i, inv)
                     /\ UNCHANGED upd
                ELSE /\ upd' = [upd EXCEPT ![i] = [inv EXCEPT !.pc = "fullNotify"]]
                     /\ UNCHANGED last
  /\ UNCHANGED <<now, violations, store, changelog, history, fs, commits, patchLog>>

\* A variant of the restart test that holds for every set of changed files.
needsRestart_Always(changes) == TRUE

\* The restart test of runFullUpdate: some changed file starts with "src/".
needsRestart(changes) == \E f \in changes : startsWithSrc(f)

\* runFullUpdate once pullAndRebuild has returned with updated == true: it
\* returns, or calls restart() when a file under src/ changed and waits at
\* the notification of restart().
FullPulled(i, notifyOk) ==
  /\ upd[i].pc = "fullNotify"
  /\ LET r == afterNotify(upd[i], lock, notifyOk)
     IN /\ lock' = r.lock
        /\ IF needsRestart(r.inv.changes)
           THEN /\ upd' = [upd EXCEPT ![i] = [r.inv EXCEPT !.pc = "restartNotify"]]
                /\ UNCHANGED last
           ELSE /\ upd' = [upd EXCEPT ![i] = NotStarted]
                /\ last' = FullReturn(i, r.inv)
  /\ UNCHANGED <<now, violations, store, changelog, history, fs, commits, remote,
                 patchLog>>

\* SelfUpdater.restart after its notification: pm2 is spawned detached, or
\* the spawn throws and restart() returns false.
FullRestart(i, spawnOk) ==
  /\ upd[i].pc = "restartNotify"
  /\ last' = FullReturn(i, [upd[i] EXCEPT !.restarted = spawnOk,
                                          !.ran = IF spawnOk THEN @ \cup {"restart"}
                                                  ELSE @])
  /\ upd' = [upd EXCEPT ![i] = NotStarted]
  /\ UNCHANGED <<now, violations, store, changelog, history, fs, commits, lock,
                 remote, patchLog>>

(* --------------------------- improvement cycle ------------------------- *)

\* VersionManager.createVersion on the ledger, changelog and files given:
\* whether it threw, and otherwise the Version and what it leaves.
createVersion(st, cl, files, proposal, t) ==
  IF proposal.solution.code = NoCode
  THEN [threw |-> TRUE, version |-> <<>>, store |-> st, changelog |-> cl,
        files |-> files]
  ELSE LET v == NewVersion(st, proposal, t) IN
       [threw |-> FALSE, version |-> v,
        store |-> [st EXCEPT !.versions = Append(@, v), !.totalChanges = @ + 1],
        changelog |-> addToChangelog(cl, v),
        files |-> writeFile(
                    writeFile(saveVersionCode(files, v.version, proposal),
                              VERSIONS_FILE, File("ledger", "", <<>>)),
                    CHANGELOG_FILE, File("changelog", "", <<>>))]

\* VersionManager.updateStatus on the ledger, changelog and files given.
updateStatus(st, cl, files, versionId, status) ==
  IF \E i \in 1..Len(st.versions) : st.versions[i].id = versionId
  THEN LET first == CHOOSE i \in 1..Len(st.versions) :
                       /\ st.versions[i].id = versionId
                       /\ \A j \in 1..(i - 1) : st.versions[j].id # versionId
           version == [st.versions[first] EXCEPT !.status = status]
       IN [store |-> [st EXCEPT !.versions[first] = version],
           changelog |-> updateChangelogStatus(cl, version),
           files |-> writeFile(writeFile(files, VERSIONS_FILE, File("ledger", "", <<>>)),
                               CHANGELOG_FILE, File("changelog", "", <<>>))]
  ELSE [store |-> st, changelog |-> cl, files |-> files]

\* What generateImprovement resolves to for an issue: a proposal, or null
\* (no JSON in the answer, or an error while asking or parsing).
Answer(proposal) == [generated |-> TRUE, proposal |-> proposal]
NoAnswer(t) ==
  [generated |-> FALSE,
   proposal |-> Proposal(t, "ux", "engagement is low", "medium", PlainName, PlainCode)]

\* The answers for the issues of one cycle that are not of low severity.
Answers(t) ==
  {Answer(p) : p \in {q \in Proposals(t) :
                        /\ q.solution.filename = PlainName
                        /\ q.solution.code \in {PlainCode, UnsafeCode, NoCode}}}
    \cup {NoAnswer(t)}

\* The loop body after implement() has returned r for the version cv: on
\* success updateStatus; the notifications leave no state.
afterImplement(c, cv, r, t) ==
  LET us == updateStatus(cv.store, cv.changelog, r.files, cv.version.id,
                         "implemented")
  IN [store |-> IF r.impl.success THEN us.store ELSE cv.store,
      changelog |-> IF r.impl.success THEN us.changelog ELSE cv.changelog,
      files |-> IF r.impl.success THEN us.files ELSE r.files,
      history |-> r.history,
      violations |-> ViolationsAfterAll(c.violations, r.checked, t),
      commits |-> c.commits + r.committed,
      processed |-> c.processed + 1,
      implemented |-> c.implemented + (IF r.impl.success THEN 1 ELSE 0),
      versionsCreated |-> Append(c.versionsCreated, cv.version.version),
      threw |-> FALSE]

\* The loop body after createVersion: nothing in the loop catches, so an
\* exception of createVersion leaves the loop and the cycle.  (Each result is
\* bound through a one-element set, so that it is computed once.)
afterVersion(a, c, cv, t) ==
  IF cv.threw THEN [c EXCEPT !.threw = TRUE, !.processed = @ + 1]
  ELSE CHOOSE out \in
         {afterImplement(c, cv, r, t) :
            r \in {implement(a.proposal, cv.version.version, cv.files, c.history,
                             c.commits, t, TRUE)}} : TRUE

\* The loop body for one issue, from the answer generateImprovement gave.
improveOne(a, c, t) ==
  IF ~a.generated THEN [c EXCEPT !.processed = @ + 1]
  ELSE CHOOSE out \in
         {afterVersion(a, c, cv, t) :
            cv \in {createVersion(c.store, c.changelog, c.files, a.proposal, t)}} :
         TRUE

\* The loop over the issues of runSelfImprovement (index.ts:88-133).
\* processed counts the issues the loop got to.
RECURSIVE improveEach(_, _, _)
improveEach(answers, c, t) ==
  IF answers = <<>> \/ c.threw THEN c
  ELSE CHOOSE out \in
         {improveEach(Tail(answers), n, t) :
            n \in {improveOne(Head(answers), c, t)}} : TRUE

\* runSelfImprovement when checkForUpdates finds nothing to pull: applyAll,
\* then the loop over the issues that are not of low severity.  The call
\* record keeps the answers and the number of patches that were pending.
RunSelfImprovement(answers) ==
  /\ Len(store.versions) + Len(answers) <= MaxVersions
  /\ Len(history.implementations) + Len(answers) <= MaxImpl
  /\ Len(violations) + Len(patchLog.pending) + Len(answers)
       <= MaxViolations + MaxPatches
  /\ \E pa \in {applyAll(patchLog, fs, violations, now)} :
       \E c \in {improveEach(answers,
                              [store |-> store, changelog |-> changelog,
                               files |-> pa.files, history |-> history,
                               violations |-> pa.violations, commits |-> commits,
                               processed |-> 0, implemented |-> 0,
                               versionsCreated |-> <<>>, threw |-> FALSE],
                              now)} :
          /\ patchLog' = pa.log
          /\ store' = c.store
          /\ changelog' = c.changelog
          /\ fs' = c.files
          /\ history' = c.history
          /\ violations' = c.violations
          /\ commits' = c.commits
          /\ last' = Call("runSelfImprovement",
                          [answers |-> answers, pending |-> Len(patchLog.pending)],
                          [processed |-> c.processed, implemented |-> c.implemented,
                           versionsCreated |-> c.versionsCreated, patches |-> pa.ret],
                          <<>>, {}, c.commits - commits, c.threw)
  /\ UNCHANGED <<now, lock, upd, remote>>

(* ---------------------------- specifications --------------------------- *)

SafeStringProposals(t) == {p \in Proposals(t) : p.solution.code # NoCode}

\* The path strings the sandbox is asked about: relative and absolute, plain,
\* climbing with leading ".." segments, and climbing from below a directory.
RawPaths ==
  {P(abs, prefix \o Ups(n, rest)) :
     abs \in BOOLEAN, prefix \in {<<>>, <<"src">>}, n \in {0, 1, MaxUps},
     rest \in {<<"cache.ts">>, <<"etc", "passwd">>, <<"app", "src", ".env">>}}
  \cup {NotAString}

\* A caller asks the sandbox about a path (security.canAccessPath).
SandboxCheck(p) ==
  /\ Len(violations) < MaxViolations
  /\ violations' = ViolationsAfter(violations, p, now)
  /\ last' = Call("isPathAllowed", p, isPathAllowed(p), <<>>, {}, 0, FALSE)
  /\ UNCHANGED <<now, store, changelog, history, fs, commits, lock, upd,
                 remote, patchLog>>

NextSandbox == \E p \in RawPaths : SandboxCheck(p)

SpecSandbox == Init /\ [][NextSandbox]_vars

\* The tokens of the code handed to sanitizeCode: plain text, tokens that
\* SENSITIVE_PATTERNS match, and the two shapes the rewrites match.
CodeTokens ==
  {"plain", "foo", "sk-abcdefghijklmnopqrstuvwx", "process.env.HOME",
   "'/home/u/.ssh/id_rsa'", "const apiSecret = 'aaaaaaaaaaaaaaaaaaaaaaaa'",
   "('0123456789abcdef0123456789abcdef')"}

CodeInputs == UNION {[1..n -> CodeTokens] : n \in 0..MaxTokens}

\* A caller filters code (security.sanitizeCode): fresh code, or the code
\* the previous call returned.
SanitizeCode(code) ==
  /\ last' = Call("sanitizeCode", code, sanitizeCode(code), <<>>, {}, 0, FALSE)
  /\ UNCHANGED <<now, violations, store, changelog, history, fs, commits, lock,
                 upd, remote, patchLog>>

NextFilter ==
  \E code \in CodeInputs \cup (IF last.op = "sanitizeCode" THEN {last.ret} ELSE {}) :
     SanitizeCode(code)

SpecFilter == Init /\ [][NextFilter]_vars

\* Path strings of each kind: the secrets file inside the root, a plain
\* relative name, a climbing path, and a value that is no string.
GuardPaths ==
  {P(TRUE, <<"app", "src", ".env">>), P(FALSE, <<"cache.ts">>),
   P(FALSE, Ups(1, <<"etc", "passwd">>)), NotAString}

\* The sandbox asked directly and by implement() on its target (a plain
\* name and the secrets name), as time passes.
NextGuard ==
  \/ Tick
  \/ \E p \in GuardPaths : SandboxCheck(p)
  \/ \E p \in {q \in SafeStringProposals(now) :
                  q.solution.filename \in {PlainName, SecretsName}} :
        Implement(p, "1.0.1", TRUE)

SpecGuard == Init /\ [][NextGuard]_vars

\* The ids rollback is asked for: the recorded ones, the one the most recent
\* implement() returned, and one that was never given out.
RollbackIds ==
  ImplementationIds \cup {"impl-x"}
    \cup (IF last.op = "implement" THEN {last.ret.id} ELSE {})

\* The implementer and its rollback, called with the proposals of the model
\* and the version strings the ledger assigns.
NextImpl ==
  \/ Tick
  \/ \E p \in SafeStringProposals(now), v \in {"1.0.1", "1.1.0"}, gitOk \in BOOLEAN :
        Implement(p, v, gitOk)
  \/ \E id \in RollbackIds, gitOk \in BOOLEAN : Rollback(id, gitOk)

SpecImpl == Init /\ [][NextImpl]_vars

\* Implementation records as loadHistory reads them from the history file
\* when the implementer is constructed: one that modified
\* src/improvements/cache.ts and has its backup, one that created a file and
\* has none, and one whose backup file is no longer on disk.
ImprovedTarget == join(SRC_DIR, <<"improvements", "cache.ts">>)
KeptBackup == BackupPath(ImprovedTarget, "1.0.1", 7)
LostBackup == BackupPath(ImprovedTarget, "1.0.1", 8)

LoadedImplementation(id, action, backupPath) ==
  [id |-> id, proposalId |-> "improvement-7", version |-> "1.0.1",
   file |-> PlainName, action |-> action, backupPath |-> backupPath,
   gitCommit |-> "h0", success |-> TRUE, error |-> ""]

LoadedImplementations ==
  {LoadedImplementation("impl-7", "modified", KeptBackup),
   LoadedImplementation("impl-8", "modified", LostBackup),
   LoadedImplementation("impl-9", "created", NoPath)}

\* The histories loadHistory returns: up to MaxImpl records with distinct ids.
LoadedHistories ==
  {[implementations |-> impls, totalImplemented |-> Len(impls), totalFailed |-> 0] :
     impls \in {q \in UNION {[1..n -> LoadedImplementations] : n \in 0..MaxImpl} :
                  \A i, j \in 1..Len(q) : q[i].id = q[j].id => i = j}}

\* The state after construction when a history file is on disk, with the
\* kept backup and, or not, the directory src/improvements and its file.
InitRestore ==
  /\ now = 0
  /\ violations = <<>>
  /\ store = [currentVersion |-> "1.0.0", versions |-> <<>>, totalChanges |-> 0]
  /\ changelog = <<>>
  /\ history \in LoadedHistories
  /\ \E improved \in BOOLEAN :
        fs = (OriginalTarget :> File("original", "", <<"plain">>))
             @@ (KeptBackup :> File("original", "", <<"before">>))
             @@ (HISTORY_FILE :> File("history", "", <<>>))
             @@ (IF improved
                 THEN ImprovedTarget :> File("implemented", "1.0.1", <<"plain">>)
                 ELSE <<>>)
  /\ commits = 0
  /\ lock = FALSE
  /\ upd = [i \in 1..MaxInv |-> NotStarted]
  /\ remote = 0
  /\ patchLog = [applied |-> <<>>, pending |-> <<>>, totalApplied |-> 0]
  /\ last = NoCall

\* rollback on a loaded history, with git working or failing.
NextRestore ==
  \/ Tick
  \/ \E id \in RollbackIds, gitOk \in BOOLEAN : Rollback(id, gitOk)

SpecRestore == InitRestore /\ [][NextRestore]_vars

\* pullAndRebuild invocations that overlap each other at their await, with
\* commits landing on the remote in between.
NextUpdate ==
  \/ \E i \in 1..MaxInv, cf \in ChangeSets, fail \in Failures : PullStart(i, cf, fail)
  \/ \E i \in 1..MaxInv, ok \in BOOLEAN : PullFinish(i, ok)
  \/ RemotePush

SpecUpdate == Init /\ [][NextUpdate]_vars

\* pullAndRebuild invocations in a process that can be killed and started
\* again at any of their awaits.
NextCrash ==
  \/ \E i \in 1..MaxInv, cf \in ChangeSets, fail \in Failures : PullStart(i, cf, fail)
  \/ \E i \in 1..MaxInv, ok \in BOOLEAN : PullFinish(i, ok)
  \/ RemotePush
  \/ Crash

SpecCrash == Init /\ [][NextCrash]_vars

\* Checks of the remote and pulls from it, with either of them failing.
NextFetch ==
  \/ \E fetchOk \in BOOLEAN : CheckForUpdates(fetchOk)
  \/ \E i \in 1..MaxInv, cf \in ChangeSets, fail \in Failures : PullStart(i, cf, fail)
  \/ \E i \in 1..MaxInv, ok \in BOOLEAN : PullFinish(i, ok)
  \/ RemotePush

SpecFetch == Init /\ [][NextFetch]_vars

\* The proposals the improvement cycle handles while an update is under way:
\* code that passes validation and code that does not, and a file name that
\* climbs from the snapshot directory into the source tree.
OverlapProposals(t) ==
  {p \in Proposals(t) : /\ p.solution.filename = PlainName
                        /\ p.solution.code \in {PlainCode, UnsafeCode}}
  \cup {Proposal(t, "ux", "engagement is low", "medium", ClimbIntoSrc, PlainCode)}

\* The patches created while an update may be running: the data patches.
OverlapPatchSpecs == {spec \in PatchSpecs : spec.type = "data"}

\* The steps of the improvement cycle (createVersion, then implement) and
\* the patcher, overlapping pullAndRebuild invocations at their await.
NextOverlap ==
  \/ \E i \in 1..MaxInv, fail \in {"none", "pull"} :
        PullStart(i, {"src/agent/brain.ts"}, fail)
  \/ \E i \in 1..MaxInv, ok \in BOOLEAN : PullFinish(i, ok)
  \/ \E p \in OverlapProposals(now) : CreateVersion(p)
  \/ \E p \in OverlapProposals(now) : Implement(p, "1.0.1", TRUE)
  \/ \E spec \in OverlapPatchSpecs : CreatePatch(spec)
  \/ \E id \in PatchIds : Apply(id)

SpecOverlap == Init /\ [][NextOverlap]_vars

\* Overlapping invocations of runFullUpdate while commits land on the remote.
NextFullUpdate ==
  \/ \E i \in 1..MaxInv, fetchOk \in BOOLEAN,
        c \in {{"src/agent/brain.ts"}, {"README.md"}},
        fail \in {"none", "lock", "pull", "build"} :
        FullStart(i, fetchOk, c, fail)
  \/ \E i \in 1..MaxInv, ok \in BOOLEAN : FullPulled(i, ok)
  \/ \E i \in 1..MaxInv, ok \in BOOLEAN : FullRestart(i, ok)
  \/ RemotePush

SpecFullUpdate == Init /\ [][NextFullUpdate]_vars

\* Improvement cycles over one or two issues, with patches waiting.
NextCycle ==
  \/ \E spec \in {q \in PatchSpecs : q.target = <<"README.md">>} : CreatePatch(spec)
  \/ \E a \in Answers(now) : RunSelfImprovement(<<a>>)
  \/ \E a, b \in Answers(now) : RunSelfImprovement(<<a, b>>)

SpecCycle == Init /\ [][NextCycle]_vars

\* The hot patcher alone: patches are created, applied one by one and
\* applied as a batch.
NextPatch ==
  \/ \E spec \in PatchSpecs : CreatePatch(spec)
  \/ \E id \in PatchIds : Apply(id)
  \/ ApplyAll

SpecPatch == Init /\ [][NextPatch]_vars

\* The patches that wait while runs overlap: one for a file that exists and
\* one that creates its file.
RacePatchSpecs ==
  {q \in PatchSpecs : q.action \in {"modify_json", "append"}}

\* Runs of applyAll that overlap at their awaits, with patches waiting.
NextRace ==
  \/ \E spec \in RacePatchSpecs : CreatePatch(spec)
  \/ \E i \in 1..MaxInv : ApplyAllStart(i)
  \/ \E i \in 1..MaxInv : ApplyAllResume(i)

SpecRace == Init /\ [][NextRace]_vars

(* ------------------------------- properties ---------------------------- *)

\* The resolved, normalized form of a path string lies outside the sandbox
\* root: the root is not a prefix of it.
Outside(path) ==
  LET n == normalize(resolve(path), TRUE) IN
  \/ Len(n) < Len(SANDBOX_ROOT)
  \/ SubSeq(n, 1, Len(SANDBOX_ROOT)) # SANDBOX_ROOT

HasDotDot(path) == \E i \in 1..Len(path.segs) : path.segs[i] = ".."

\* C1: whenever isPathAllowed has been asked about a path string whose
\* resolved, normalized form lies outside the sandbox root, with or without
\* ".." segments in it, it has returned false and has not thrown.
C1_EscapingPathRejected ==
  (last.op = "isPathAllowed" /\ ~last.arg.bad /\ Outside(last.arg))
    => (last.ret = FALSE /\ ~last.threw)

\* isPathAllowed has answered for a relative path that starts below src/ and
\* climbs out of the root through ".." segments.
C1_Witness ==
  /\ last.op = "isPathAllowed"
  /\ ~last.arg.bad /\ ~last.arg.abs
  /\ HasDotDot(last.arg) /\ Head(last.arg.segs) = "src"
  /\ Outside(last.arg)
  /\ last.ret = FALSE

\* An absolute path lies inside the sandbox root and matches neither
\* blocklist.
Blocklisted(path) ==
  LET lowerPath == [i \in 1..Len(path) |-> toLowerCase(path[i])] IN
  \/ \E b \in 1..Len(BLOCKED_PATHS) : includes(lowerPath, toLowerCase(BLOCKED_PATHS[b]))
  \/ \E e \in 1..Len(BLOCKED_EXTENSIONS) : endsWith(lowerPath, BLOCKED_EXTENSIONS[e])

InsideRoot(path) ==
  /\ Len(path) >= Len(SANDBOX_ROOT)
  /\ SubSeq(path, 1, Len(SANDBOX_ROOT)) = SANDBOX_ROOT

PipelineOps == {"createVersion", "implement", "rollback", "apply"}

\* C2: every file a pipeline operation (createVersion, implement, rollback,
\* hot-patch apply) has written lies inside the sandbox root and matches no
\* blocklist, whatever the solution's file name or the patch's target.
C2_WritesStayInside ==
  last.op \in PipelineOps =>
    \A i \in 1..Len(last.wrote) :
       InsideRoot(last.wrote[i]) /\ ~Blocklisted(last.wrote[i])

SemverLess(a, b) ==
  \/ a[1] < b[1]
  \/ a[1] = b[1] /\ a[2] < b[2]
  \/ a[1] = b[1] /\ a[2] = b[2] /\ a[3] < b[3]

\* C4: the version strings createVersion has assigned are strictly
\* increasing under semantic-version ordering in call order (hence pairwise
\* distinct), and every feature version has patch component 0.
C4_VersionsStrictlyIncrease ==
  /\ \A i, j \in 1..Len(store.versions) :
        i < j => SemverLess(ParseVersion(store.versions[i].version),
                            ParseVersion(store.versions[j].version))
  /\ \A i \in 1..Len(store.versions) :
        store.versions[i].type = "feature"
          => ParseVersion(store.versions[i].version)[3] = 0

ImplementOf(call) == call.op = "implement"

UnsafeCall(call) ==
  ImplementOf(call) /\ ~isCodeSafe(call.arg.proposal.solution.code).safe

\* C3: an implement() call on code that isCodeSafe flags as unsafe returns
\* success == false and reports no file written, no directory created and no
\* commit; and the step of that call leaves the file system, the history and
\* the commit count as they were.
C3_UnsafeCodeWritesNothing ==
  /\ [](UnsafeCall(last) =>
          /\ last.ret.success = FALSE
          /\ last.wrote = <<>> /\ last.mkdirs = {} /\ last.committed = 0)
  /\ [][(last' # last /\ UnsafeCall(last'))
          => (fs' = fs /\ commits' = commits /\ history' = history)]_vars

\* implement() has refused unsafe code aimed at a file that exists.
C3_Witness ==
  /\ UnsafeCall(last)
  /\ last.arg.before # NoFile
  /\ last.ret.success = FALSE
  /\ last.ret.error = "Security validation failed"
  /\ fs[last.arg.target] = last.arg.before

C10_SafeInsideImplemented ==
  (/\ ImplementOf(last)
   /\ isCodeSafe(last.arg.proposal.solution.code).safe
   /\ InsideRoot(last.arg.target) /\ ~Blocklisted(last.arg.target)
   /\ last.arg.gitOk)
    => (/\ last.ret.success = TRUE
        /\ last.ret.gitCommit \notin {"", "no-commit"}
        /\ existsSync(fs, last.arg.target)
        /\ fs[last.arg.target].kind = "implemented"
        /\ fs[last.arg.target].version = last.arg.version)

PullReturn(call) == call.op = "pullAndRebuild"

\* C8: a pullAndRebuild invocation that found the update lock present has
\* returned updated == false having run no stash, pull, diff, install, build
\* or notification and having created no lock; and the step of that call
\* leaves the lock in place, starts no invocation (nothing is queued or
\* retried) and changes neither the checkout nor the files.
C8_LockedOutIsInert ==
  /\ []((PullReturn(last) /\ last.ret.sawLock) =>
          /\ last.ret.updated = FALSE
          /\ last.ret.ran = {} /\ last.ret.changes = {}
          /\ ~last.ret.createdLock)
  /\ [][(last' # last /\ PullReturn(last') /\ last'.ret.sawLock)
          => (/\ lock /\ lock'
              /\ upd' = upd /\ remote' = remote
              /\ fs' = fs /\ commits' = commits)]_vars

\* An invocation has been turned away by the lock of another one that is
\* still waiting for its notification.
C8_Witness ==
  /\ PullReturn(last) /\ last.ret.sawLock
  /\ last.ret.error = "Update already in progress"
  /\ lock
  /\ \E j \in 1..MaxInv : j # last.arg /\ upd[j].pc = "notify"

\* C9: at the return of every pullAndRebuild invocation that created the
\* update lock, whether it succeeded or a tool or the notification failed,
\* the lock is gone.
C9_LockReleasedOnReturn ==
  [][(last' # last /\ PullReturn(last') /\ last'.ret.createdLock) => ~lock']_vars

\* An invocation that created the lock has returned after a failing build,
\* and the lock is gone.
C9_Witness ==
  /\ PullReturn(last) /\ last.ret.createdLock
  /\ last.ret.error = "build" /\ "build" \in last.ret.ran
  /\ ~lock

\* A file of the checkout outside the data directory.
InWorkingTree(path) ==
  /\ Len(path) >= Len(PROJECT_ROOT)
  /\ SubSeq(path, 1, Len(PROJECT_ROOT)) = PROJECT_ROOT
  /\ ~(Len(path) >= Len(DataDir) /\ SubSeq(path, 1, Len(DataDir)) = DataDir)

\* C5: while one pullAndRebuild invocation holds the update lock (it waits
\* between creating and removing it), no other call mutates the working
\* tree: none writes a file of the checkout, none commits, and no other
\* pullAndRebuild runs a tool.
C5_NoMutationUnderLock ==
  [][(/\ last' # last
      /\ \E j \in 1..MaxInv : upd[j].pc = "notify"
      /\ ~(PullReturn(last') /\ upd[last'.arg].pc = "notify"))
       => (/\ \A i \in 1..Len(last'.wrote) : ~InWorkingTree(last'.wrote[i])
           /\ last'.committed = 0
           /\ PullReturn(last') => last'.ret.ran = {})]_vars

\* A call record of applyAll that started right after another applyAll
\* returned: no createPatch, and no other call, lies between the two.
SecondApplyAll == last.op = "applyAll" /\ last.arg.after = "applyAll"

IdsOf(list) == {list[i].id : i \in 1..Len(list)}

\* No id occurs twice in a list of the patch log.
NoRepeat(list) == \A i, j \in 1..Len(list) : list[i].id = list[j].id => i = j

\* Every patch of the log is in one list only; the applied ones carry a
\* timestamp and the success mark, the pending ones carry no timestamp.
PatchLogWellFormed ==
  /\ IdsOf(patchLog.pending) \cap IdsOf(patchLog.applied) = {}
  /\ NoRepeat(patchLog.pending) /\ NoRepeat(patchLog.applied)
  /\ \A i \in 1..Len(patchLog.applied) :
        patchLog.applied[i].appliedAt # "" /\ patchLog.applied[i].success = "true"
  /\ \A i \in 1..Len(patchLog.pending) : patchLog.pending[i].appliedAt = ""

\* What a step does to the patches: none leaves the log, an applied one stays
\* applied, createPatch puts its patch in the pending list, and an apply moves
\* its patch to the applied list exactly when it returns true.
PatchStep ==
  /\ IdsOf(patchLog.pending) \cup IdsOf(patchLog.applied)
       \subseteq IdsOf(patchLog'.pending) \cup IdsOf(patchLog'.applied)
  /\ IdsOf(patchLog.applied) \subseteq IdsOf(patchLog'.applied)
  /\ (last'.n # last.n /\ last'.op = "createPatch")
       => last'.ret.id \in IdsOf(patchLog'.pending) \ IdsOf(patchLog.pending)
  /\ (last'.n # last.n /\ last'.op = "apply" /\ last'.arg \in IdsOf(patchLog.pending))
       => IF last'.ret
          THEN last'.arg \in IdsOf(patchLog'.applied)
          ELSE last'.arg \in IdsOf(patchLog'.pending)
  /\ (last'.n # last.n /\ last'.op = "applyAll")
       => /\ Cardinality(IdsOf(patchLog'.applied) \ IdsOf(patchLog.applied))
               = last'.ret.applied
          /\ last'.ret.applied + last'.ret.failed = Len(patchLog.pending)

\* C12: every patch ever created is in exactly one of the pending and the
\* applied list and is never deleted; it is applied, with a timestamp, exactly
\* when an apply of it succeeded, and a failed apply leaves it pending.
C12_PatchInExactlyOneList == [](PatchLogWellFormed) /\ [][PatchStep]_vars

\* An apply of a pending patch has failed, and the patch is still pending,
\* marked as failed, next to another pending patch.
C12_Witness ==
  /\ last.op = "apply"
  /\ last.ret = FALSE
  /\ Len(patchLog.pending) = 2
  /\ \E i \in 1..Len(patchLog.pending) :
        patchLog.pending[i].id = last.arg /\ patchLog.pending[i].success = "false"

\* A return of runFullUpdate whose checkForUpdates reported behind == 0.
NothingToPull == last.op = "runFullUpdate" /\ last.arg.behind = 0

\* The step on which an invocation of runFullUpdate returns right after a
\* check that reported behind == 0: no invocation is waiting in its slot.
NothingToPullStep ==
  /\ last'.n # last.n
  /\ last'.op = "runFullUpdate"
  /\ last'.arg.behind = 0
  /\ upd[last'.arg.slot].pc = "idle"

\* C13: when checkForUpdates reports behind == 0, runFullUpdate runs no step
\* of pullAndRebuild or restart, neither creates nor tests the update lock,
\* and returns updated == false and restarted == false.
C13_NothingToPullIsInert ==
  /\ [](NothingToPull =>
          /\ ~last.ret.updated /\ ~last.ret.restarted
          /\ last.ret.ran = {} /\ last.ret.error = ""
          /\ ~last.ret.createdLock /\ ~last.ret.sawLock)
  /\ [][NothingToPullStep => UNCHANGED <<lock, upd, remote, fs, commits>>]_vars

\* runFullUpdate returned after a check that reported behind == 0 although
\* another invocation was inside pullAndRebuild, holding the lock.
C13_Witness ==
  /\ NothingToPull
  /\ lock
  /\ \E i \in 1..MaxInv : upd[i].pc = "fullNotify"

\* C14: in a cycle every issue is processed whatever happened to the issues
\* before it, and every pending patch is attempted by applyAll whatever
\* happened to the patches before it.
C14_NoItemAbortsTheCycle ==
  last.op = "runSelfImprovement"
    => /\ last.ret.processed = Len(last.arg.answers)
       /\ last.ret.patches.applied + last.ret.patches.failed = last.arg.pending

\* The history keeps every record it held, in place and unchanged.
RecordsKept ==
  /\ Len(history'.implementations) >= Len(history.implementations)
  /\ SubSeq(history'.implementations, 1, Len(history.implementations))
       = history.implementations

\* A step on which a rollback call returns.
RollbackStep == last'.n # last.n /\ last'.op = "rollback"

C16_FailedRollbackTouchesNothing ==
  [][RollbackStep =>
       /\ last'.ret = FALSE => fs' = fs
       /\ last'.ret = TRUE =>
            \E i \in 1..Len(history.implementations) :
               /\ history.implementations[i].id = last'.arg
               /\ fs'[ImprovedTarget] = fs[history.implementations[i].backupPath]]_vars

\* The violation list has grown by exactly one record, for the path given,
\* stamped with the current time and carrying a reason.
OneViolationAdded(path) ==
  /\ Len(violations') = Len(violations) + 1
  /\ SubSeq(violations', 1, Len(violations)) = violations
  /\ violations'[Len(violations')].path = path
  /\ violations'[Len(violations')].timestamp = now
  /\ violations'[Len(violations')].action
       \in {"outside_sandbox", "blocked_path", "blocked_extension", "invalid_path"}

\* The target of an implement() call is an environment-secrets file inside
\* the sandbox root, and the code passes validation.
SecretsTarget(call) ==
  /\ ImplementOf(call) /\ ~UnsafeCall(call)
  /\ InsideRoot(call.arg.target)
  /\ call.arg.target[Len(call.arg.target)] = ".env"

\* C17: an isPathAllowed call that returns false records exactly one
\* violation with path, timestamp and reason, one that returns true records
\* none, and the list never shrinks; an implement() call whose target is an
\* environment-secrets file inside the root is rejected, writes nothing and
\* leaves one violation.
C17_OneViolationPerRejection ==
  [][/\ Len(violations') >= Len(violations)
     /\ (last'.n # last.n /\ last'.op = "isPathAllowed")
          => IF last'.ret THEN violations' = violations
             ELSE OneViolationAdded(last'.arg)
     /\ (last'.n # last.n /\ SecretsTarget(last'))
          => /\ ~last'.ret.success
             /\ fs' = fs
             /\ OneViolationAdded(P(TRUE, last'.arg.target))]_vars

\* implement() was turned away from src/evolution/.env, which does not exist
\* afterwards, and the violation list ends with the record of that check,
\* after the record of an earlier rejected check.
C17_Witness ==
  /\ SecretsTarget(last)
  /\ ~existsSync(fs, last.arg.target)
  /\ Len(violations) = 2
  /\ violations[2].path = P(TRUE, last.arg.target)

\* C18: sanitizeCode is idempotent: filtering what sanitizeCode returned
\* gives it back unchanged, also when a structural rewrite has fired.
C18_SanitizeCodeIdempotent ==
  last.op = "sanitizeCode" => sanitizeCode(last.ret) = last.ret

\* The positions of a path in the list of files a call wrote.
WrittenAt(call, path) == {i \in 1..Len(call.wrote) : call.wrote[i] = path}

\* An implement() call that validation or the path check turned away.
AbortedCall(call) ==
  /\ ImplementOf(call)
  /\ \/ ~isCodeSafe(call.arg.proposal.solution.code).safe
     \/ ~isPathAllowed(P(TRUE, call.arg.target))

Bumped(cur, type) ==
  IF type = "feature" THEN <<cur[1], cur[2] + 1, 0>>
  ELSE <<cur[1], cur[2], cur[3] + 1>>

\* C21: the version createVersion assigns is the ledger's current version
\* bumped by the rule: minor + 1 and patch 0 for a feature, patch + 1 for an
\* improvement, optimization or bugfix; the major component stays.
C21_BumpRule ==
  [][(last'.n # last.n /\ last'.op = "createVersion" /\ ~last'.threw)
       => /\ last'.ret.type \in {"feature", "improvement", "optimization", "bugfix"}
          /\ ParseVersion(last'.ret.version)
               = Bumped(ParseVersion(store.currentVersion), last'.ret.type)
          /\ ParseVersion(last'.ret.version)[1]
               = ParseVersion(store.currentVersion)[1]]_vars

\* createVersion has assigned 1.3.0 to a feature on a ledger at 1.2.3, after
\* assigning 1.2.4 to a change of another type.
C21_Witness ==
  /\ last.op = "createVersion" /\ ~last.threw
  /\ store.currentVersion = "1.2.3"
  /\ last.ret.type = "feature" /\ last.ret.version = "1.3.0"
  /\ Len(store.versions) = 2
  /\ store.versions[1].version = "1.2.4"

\* The step on which an invocation of runFullUpdate returns.
FullUpdateReturns == last'.n # last.n /\ last'.op = "runFullUpdate"

\* The returning invocation had called restart(): it was waiting inside it.
RestartInvoked == upd[last'.arg.slot].pc = "restartNotify"

\* C22: runFullUpdate calls restart() exactly when pullAndRebuild returned
\* updated == true with a changed file under src/; an invocation that did not
\* call it returns restarted == false, and so does every return that found no
\* updates, found the lock held, failed to pull or build, or changed no
\* source file.
C22_RestartIffSourceUpdated ==
  /\ [][FullUpdateReturns
          => /\ RestartInvoked
                  <=> /\ last'.ret.updated
                      /\ \E f \in last'.ret.changes : startsWithSrc(f)
             /\ ~RestartInvoked
                  => ~last'.ret.restarted /\ "restart" \notin last'.ret.ran]_vars
  /\ [](\A i \in 1..MaxInv :
          upd[i].pc = "restartNotify"
            => upd[i].updated /\ \E f \in upd[i].changes : startsWithSrc(f))

\* runFullUpdate has pulled a change under src/, restarted and returned
\* restarted == true.
C22_Witness ==
  /\ last.op = "runFullUpdate"
  /\ last.ret.updated /\ last.ret.restarted
  /\ "restart" \in last.ret.ran
  /\ last.ret.changes = {"src/agent/brain.ts"}

\* runFullUpdate has returned after a failed build of a change under src/.
BuildFailedOnSource ==
  /\ last.op = "runFullUpdate"
  /\ last.ret.error = "build" /\ last.ret.changes = {"src/agent/brain.ts"}

\* The lock file exists and no invocation is inside pullAndRebuild: the
\* lock was left by a process that was killed.
StaleLock == lock /\ \A i \in 1..MaxInv : upd[i].pc = "idle"

\* C23: a lock that exists when the process is killed is still there when
\* the process has started again; a lock left behind stays: no step removes
\* it, and
\* every pullAndRebuild called while it is there returns updated == false with
\* the lock error, without running a tool and without pulling.
C23_StaleLockPersists ==
  /\ [][(lock /\ last'.n # last.n /\ last'.op = "crash") => StaleLock']_vars
  /\ [][StaleLock => StaleLock']_vars
  /\ [][(StaleLock /\ last'.n # last.n /\ last'.op = "pullAndRebuild")
          => /\ ~last'.ret.updated
             /\ last'.ret.error = "Update already in progress"
             /\ last'.ret.ran = {} /\ ~last'.ret.createdLock
             /\ remote' = remote]_vars

\* After a kill inside pullAndRebuild, a later invocation found the lock and
\* returned while commits were waiting on the remote.
C23_Witness ==
  /\ StaleLock
  /\ last.op = "pullAndRebuild" /\ last.ret.sawLock
  /\ remote > 0

\* What checkForUpdates returns when the remote has nothing new.
NoUpdatesAvailable == checkForUpdates(0, TRUE)

\* C24: a check whose fetch failed returns something other than the result
\* of a check that found no updates, and a pullAndRebuild whose pull failed
\* returns updated == false with the failure in its error field.
C24_RemoteFailureSurfaced ==
  /\ (last.op = "checkForUpdates" /\ ~last.arg.fetchOk)
       => last.ret # NoUpdatesAvailable
  /\ (last.op = "pullAndRebuild" /\ "pull" \in last.ret.ran /\ last.ret.changes = {}
        /\ ~last.ret.updated)
       => last.ret.error = "pull"

\* A replace patch that cannot be applied to the files: its target does not
\* exist, or its old value does not occur in the target.
ReplaceCannotApply(patch, files) ==
  /\ patch.action = "replace"
  /\ \/ ~existsSync(files, resolveTargetPath(patch.target))
     \/ /\ patch.oldValue # ""
        /\ ~Has(files[resolveTargetPath(patch.target)].code, {patch.oldValue})

\* The step of apply(id) on a pending replace patch that cannot be applied.
FailingReplaceStep ==
  /\ last'.n # last.n
  /\ last'.op = "apply"
  /\ \E i \in 1..Len(patchLog.pending) :
       /\ patchLog.pending[i].id = last'.arg
       /\ ReplaceCannotApply(patchLog.pending[i], fs)

OwnBlock(k) == Len(store.versions) - k + 1

\* A step of updateStatus on a ledger whose records have distinct ids.
UpdateStatusStep ==
  /\ last'.n # last.n
  /\ last'.op = "updateStatus"
  /\ Len(changelog) = Len(store.versions)
  /\ \A i, j \in 1..Len(store.versions) :
        store.versions[i].id = store.versions[j].id => i = j

\* C26: updateStatus(id, status) sets the status of the ledger record with
\* that id and of that record's own changelog block and leaves every other
\* record and block as it was; for an unknown id it returns false and changes
\* neither the ledger nor the changelog.
C26_UpdateStatusFrame ==
  [][UpdateStatusStep
       => IF \E k \in 1..Len(store.versions) : store.versions[k].id = last'.arg[1]
          THEN \A k \in 1..Len(store.versions) :
                 IF store.versions[k].id = last'.arg[1]
                 THEN /\ last'.ret = TRUE
                      /\ store'.versions[k]
                           = [store.versions[k] EXCEPT !.status = last'.arg[2]]
                      /\ changelog'[OwnBlock(k)]
                           = [changelog[OwnBlock(k)] EXCEPT !.status = last'.arg[2]]
                 ELSE /\ store'.versions[k] = store.versions[k]
                      /\ changelog'[OwnBlock(k)] = changelog[OwnBlock(k)]
          ELSE /\ last'.ret = FALSE
               /\ UNCHANGED <<store, changelog, fs>>]_vars

\* The invocations inside the stash/pull/rebuild section: they created the
\* lock and have not returned.
InSection == {i \in 1..MaxInv : upd[i].pc = "notify"}

\* C27: of the pullAndRebuild invocations that overlap, at most one is past
\* the lock test at any time: an invocation enters the section or runs a tool
\* only on a step before which no other invocation is in the section.
C27_LockIsMutex ==
  /\ [](Cardinality(InSection) <= 1)
  /\ [][\A i \in 1..MaxInv :
          (upd[i].pc = "idle" /\ upd'[i].pc = "notify") => InSection = {}]_vars
  /\ [][(/\ last'.n # last.n /\ last'.op = "pullAndRebuild"
         /\ upd[last'.arg].pc = "idle"
         /\ (last'.ret.ran # {} \/ last'.ret.createdLock))
          => InSection = {}]_vars

\* While one invocation is in the section, a second one that wanted to pull
\* the commits on the remote has been turned away at the lock test.
C27_Witness ==
  /\ InSection = {1}
  /\ last.op = "pullAndRebuild" /\ last.arg = 2
  /\ last.ret.sawLock /\ last.ret.ran = {}
  /\ lock

\* C28: isPathAllowed has returned true for every path string whose resolved,
\* normalized form lies inside the sandbox root, includes no blocklisted
\* substring and ends with no blocked extension.
C28_InsideUnblockedAllowed ==
  (/\ last.op = "isPathAllowed"
   /\ ~last.arg.bad
   /\ ~Outside(last.arg)
   /\ ~Blocklisted(normalize(resolve(last.arg), TRUE)))
    => last.ret = TRUE

\* The runs of applyAll waiting inside apply for a patch they have written.
WritersOf(patchId) ==
  {i \in 1..MaxInv :
     /\ upd[i] # NoRun
     /\ upd[i].pc = "awaitAction" /\ upd[i].patchId = patchId /\ upd[i].ok}

CodeKinds == {"implemented", "backup", "snapshot", "original"}

\* C30: no file on disk holds solution code that isCodeSafe flags as unsafe,
\* be it a target, a backup or a version snapshot, and every version with
\* status implemented has a successful implementation record.
C30_UnsafeCodeNeverOnDisk ==
  /\ \A path \in DOMAIN fs :
        fs[path].kind \in CodeKinds => isCodeSafe(fs[path].code).safe
  /\ \A i \in 1..Len(store.versions) :
        store.versions[i].status = "implemented"
          => \E k \in 1..Len(history.implementations) :
                /\ history.implementations[k].success
                /\ history.implementations[k].version = store.versions[i].version

====
